---- MODULE Spec2Model ----
(***************************************************************************)
(* Order reconciliation between the Shopify storefront and the Odoo ERP:   *)
(* the staged tables of the SQLite database, the report generation of      *)
(* Order_Flow/create_excel_report.py and the comparison of                 *)
(* Order_Flow/compare_orders.py.                                           *)
(*                                                                         *)
(* Text values are sequences of one-character strings, so that lower(),    *)
(* concatenation and numeric parsing are computed character by character.  *)
(* Numeric columns are IEEE-754 binary64 values (pandas float64) with a    *)
(* 53-bit significand kept as a sequence of bits, so that the rounding of  *)
(* decimal text and of a subtraction is computed, not assumed.             *)
(***************************************************************************)
EXTENDS Integers, Sequences, FiniteSets, TLC

(***************************************************************************)
(* Text                                                                    *)
(***************************************************************************)

\* SQL NULL / Python None / pandas NaN in a text column.  It is a sequence
\* whose only element is not a character, so it differs from every text.
NULL == <<"NULL">>

UpperChars == <<"A","B","C","D","E","F","G","H","I","J","K","L","M",
                "N","O","P","Q","R","S","T","U","V","W","X","Y","Z">>

LowerChars == <<"a","b","c","d","e","f","g","h","i","j","k","l","m",
                "n","o","p","q","r","s","t","u","v","w","x","y","z">>

DigitChars == <<"0","1","2","3","4","5","6","7","8","9">>

\* str.lower() on one character
LowerChar(c) ==
    IF \E i \in 1..Len(UpperChars) : UpperChars[i] = c
    THEN LowerChars[CHOOSE i \in 1..Len(UpperChars) : UpperChars[i] = c]
    ELSE c

\* the key columns copied without lower-casing
StrLower_Identity(s) == s

\* str.lower() that turns a missing value into the empty text
StrLower_NullToEmpty(s) ==
    IF s = NULL THEN <<>> ELSE [i \in 1..Len(s) |-> LowerChar(s[i])]

\* Series.str.lower(): a missing value stays missing
StrLower(s) ==
    IF s = NULL THEN NULL ELSE [i \in 1..Len(s) |-> LowerChar(s[i])]

(***************************************************************************)
(* binary64 arithmetic                                                     *)
(***************************************************************************)

\* significand width of a float64
Precision == 53

NaN   == [k |-> "nan",  e |-> 0, m |-> <<>>]
FZero == [k |-> "zero", e |-> 0, m |-> <<>>]

Zeros(n) == [i \in 1..n |-> 0]

RECURSIVE NatBits(_)
\* binary digits of a natural number, most significant first
NatBits(n) == IF n = 0 THEN <<>> ELSE Append(NatBits(n \div 2), n % 2)

RECURSIVE RemAfter(_, _, _)
\* (r * 2^i) mod d for 0 <= r < d < 2^11, twenty doublings at a time so
\* that no intermediate value leaves 32 bits
RemAfter(r, d, i) ==
    IF i <= 20 THEN (r * (2 ^ i)) % d
    ELSE RemAfter((r * (2 ^ 20)) % d, d, i - 20)

\* the first n binary digits of r/d (0 <= r < d) and the remainder left
FracStream(r, d, n) ==
    [bits |-> [i \in 1..n |->
                  IF 2 * RemAfter(r, d, i - 1) >= d THEN 1 ELSE 0],
     rem  |-> RemAfter(r, d, n)]

RECURSIVE LeadingZeros(_, _)
\* number of zero binary digits of r/d (0 < r < d) before its first one
LeadingZeros(r, d) == IF 2 * r >= d THEN 0 ELSE 1 + LeadingZeros(2 * r, d)

\* bits + 1, same width (not all ones): the last zero becomes one and the
\* ones after it become zero
BitInc(bits) ==
    LET p == CHOOSE i \in 1..Len(bits) :
                 bits[i] = 0 /\ \A j \in (i + 1)..Len(bits) : bits[j] = 1
    IN  [i \in 1..Len(bits) |->
            IF i < p THEN bits[i] ELSE IF i = p THEN 1 ELSE 0]

\* round-half-even of a significand of Precision bits whose discarded tail
\* is > 1/2 ulp (above), = 1/2 ulp (half) or less
RoundSig(e, bits, above, half) ==
    LET up == above \/ (half /\ bits[Precision] = 1)
    IN  IF ~up THEN [k |-> "num", e |-> e, m |-> bits]
        ELSE IF \A i \in 1..Precision : bits[i] = 1
             THEN [k |-> "num", e |-> e + 1,
                   m |-> [i \in 1..Precision |-> IF i = 1 THEN 1 ELSE 0]]
             ELSE [k |-> "num", e |-> e, m |-> BitInc(bits)]

\* the float64 nearest to n/d (n >= 0, d > 0): strtod on a decimal numeral
RatToDouble(n, d) ==
    IF n = 0 THEN FZero
    ELSE LET ip == n \div d
             r  == n % d
         IN  IF ip > 0
             THEN LET ib == NatBits(ip)
                      fs == FracStream(r, d, Precision - Len(ib))
                  IN  RoundSig(Len(ib) - 1, ib \o fs.bits,
                               2 * fs.rem > d, 2 * fs.rem = d)
             ELSE LET z  == LeadingZeros(r, d)
                      fs == FracStream(r * (2 ^ z), d, Precision)
                  IN  RoundSig(0 - (z + 1), fs.bits,
                               2 * fs.rem > d, 2 * fs.rem = d)

\* a < b on float64; any comparison with NaN is false
FLess(a, b) ==
    /\ a.k # "nan"
    /\ b.k # "nan"
    /\ b.k # "zero"
    /\ \/ a.k = "zero"
       \/ a.e < b.e
       \/ /\ a.e = b.e
          /\ \E i \in 1..Precision :
                /\ a.m[i] < b.m[i]
                /\ \A j \in 1..(i - 1) : a.m[j] = b.m[j]

\* a == b on float64; NaN equals nothing, itself included
FEq(a, b) == a.k # "nan" /\ b.k # "nan" /\ a = b

RECURSIVE BitsVal(_)
\* the natural number a bit sequence (at most 24 bits) denotes
BitsVal(bits) ==
    IF bits = <<>> THEN 0
    ELSE 2 * BitsVal(SubSeq(bits, 1, Len(bits) - 1)) + bits[Len(bits)]

\* x - y on bit sequences of equal width (x >= y), computed on limbs of 24
\* bits counted from the right; bw[c] is the borrow out of limb c
BitSub(x, y) ==
    LET n  == Len(x)
        nl == (n + 23) \div 24
        Limb(v, c) ==
            BitsVal(SubSeq(v, IF n - 24 * c + 1 < 1 THEN 1
                              ELSE n - 24 * c + 1,
                           n - 24 * (c - 1)))
        xv == [c \in 1..nl |-> Limb(x, c)]
        yv == [c \in 1..nl |-> Limb(y, c)]
        bw[c \in 0..nl] ==
            IF c = 0 THEN 0
            ELSE IF xv[c] - yv[c] - bw[c - 1] < 0 THEN 1 ELSE 0
        dv == [c \in 1..nl |->
                  xv[c] - yv[c] - bw[c - 1] + (2 ^ 24) * bw[c]]
    IN  [i \in 1..n |->
            (dv[(n - i) \div 24 + 1] \div (2 ^ ((n - i) % 24))) % 2]

\* the float64 nearest to the exact value of bits, whose first bit weighs 2^e
NormalizeBits(e, bits) ==
    IF \A i \in 1..Len(bits) : bits[i] = 0 THEN FZero
    ELSE LET p    == CHOOSE i \in 1..Len(bits) :
                        bits[i] = 1 /\ \A j \in 1..(i - 1) : bits[j] = 0
             sig  == SubSeq(bits, p, Len(bits))
         IN  IF Len(sig) <= Precision
             THEN [k |-> "num", e |-> e - (p - 1),
                   m |-> sig \o Zeros(Precision - Len(sig))]
             ELSE LET tail   == SubSeq(sig, Precision + 1, Len(sig))
                      sticky == \E i \in 2..Len(tail) : tail[i] = 1
                  IN  RoundSig(e - (p - 1), SubSeq(sig, 1, Precision),
                               tail[1] = 1 /\ sticky,
                               tail[1] = 1 /\ ~sticky)

\* abs(a - b) on non-negative float64 (round to nearest, ties to even;
\* rounding is symmetric in the sign, so abs commutes with it)
FAbsDiff(a, b) ==
    IF a.k = "nan" \/ b.k = "nan" THEN NaN
    ELSE IF a.k = "zero" THEN b
    ELSE IF b.k = "zero" THEN a
    ELSE IF a = b THEN FZero
    ELSE LET x == IF FLess(a, b) THEN b ELSE a
             y == IF FLess(a, b) THEN a ELSE b
             d == x.e - y.e
         IN  NormalizeBits(x.e, BitSub(x.m \o Zeros(d), Zeros(d) \o y.m))

(***************************************************************************)
(* pd.to_numeric(errors='coerce') on a text column                         *)
(***************************************************************************)

IsDigit(c) == \E i \in 1..Len(DigitChars) : DigitChars[i] = c

DigitVal(c) == (CHOOSE i \in 1..Len(DigitChars) : DigitChars[i] = c) - 1

RECURSIVE DigitsVal(_)
\* value of a sequence of decimal digits
DigitsVal(ds) ==
    IF ds = <<>> THEN 0
    ELSE 10 * DigitsVal(SubSeq(ds, 1, Len(ds) - 1)) + DigitVal(ds[Len(ds)])

\* an unsigned decimal numeral: digits with at most one point
IsNumeral(s) ==
    /\ s # NULL
    /\ \E i \in 1..Len(s) : IsDigit(s[i])
    /\ \A i \in 1..Len(s) : IsDigit(s[i]) \/ s[i] = "."
    /\ Cardinality({i \in 1..Len(s) : s[i] = "."}) <= 1

\* number of digits after the point
Decimals(s) ==
    IF \E i \in 1..Len(s) : s[i] = "."
    THEN Len(s) - (CHOOSE i \in 1..Len(s) : s[i] = ".")
    ELSE 0

\* the digits of a numeral, the point removed
NumeralDigits(s) == SelectSeq(s, IsDigit)

\* to_numeric that coerces a numeral with a decimal point to NaN
ToNumeric_IntegersOnly(s) ==
    IF IsNumeral(s) /\ Decimals(s) = 0
    THEN RatToDouble(DigitsVal(NumeralDigits(s)), 1)
    ELSE NaN

\* to_numeric that reads a text that is no number as zero
ToNumeric_ZeroOnError(s) ==
    IF IsNumeral(s)
    THEN RatToDouble(DigitsVal(NumeralDigits(s)), 10 ^ Decimals(s))
    ELSE IF s = NULL THEN NaN ELSE FZero

\* to_numeric of one cell: the float64 of a numeral, NaN for a missing or
\* unparsable value
ToNumeric(s) ==
    IF IsNumeral(s)
    THEN RatToDouble(DigitsVal(NumeralDigits(s)), 10 ^ Decimals(s))
    ELSE NaN

\* the literal 0.01 of the price comparison
PriceTolerance == RatToDouble(1, 100)

(***************************************************************************)
(* compare_orders.py: the comparison                                       *)
(***************************************************************************)

\* load_shopify_orders: the SELECT with its column aliases
load_shopify_orders(table) ==
    [i \in 1..Len(table.rows) |->
        [shopify_order_number |-> table.rows[i].Name,
         shopify_sku          |-> table.rows[i].Lineitem_sku,
         shopify_quantity     |-> table.rows[i].Lineitem_quantity,
         shopify_price        |-> table.rows[i].Lineitem_price]]

\* load_odoo_orders: the SELECT with its column aliases
load_odoo_orders(table) ==
    [i \in 1..Len(table.rows) |->
        [odoo_shopify_order_number |-> table.rows[i].Shopify_Order_Number,
         odoo_sku                  |-> table.rows[i].Product_Default_Code,
         odoo_quantity             |-> table.rows[i].Product_Quantity,
         odoo_price                |-> table.rows[i].Product_Unit_Price,
         odoo_delivery_status      |-> table.rows[i].Delivery_Status,
         odoo_order_name           |-> table.rows[i].Odoo_Name]]

\* the storefront frame after the type coercion and the lower-cased key
\* columns have been added
PrepareShopify(df) ==
    [i \in 1..Len(df) |->
        [shopify_order_number       |-> df[i].shopify_order_number,
         shopify_sku                |-> df[i].shopify_sku,
         shopify_quantity           |-> ToNumeric(df[i].shopify_quantity),
         shopify_price              |-> ToNumeric(df[i].shopify_price),
         shopify_order_number_lower |-> StrLower(df[i].shopify_order_number),
         shopify_sku_lower          |-> StrLower(df[i].shopify_sku)]]

\* the ERP frame after the type coercion and the lower-cased key columns
PrepareOdoo(df) ==
    [i \in 1..Len(df) |->
        [odoo_shopify_order_number       |-> df[i].odoo_shopify_order_number,
         odoo_sku                        |-> df[i].odoo_sku,
         odoo_quantity                   |-> ToNumeric(df[i].odoo_quantity),
         odoo_price                      |-> ToNumeric(df[i].odoo_price),
         odoo_delivery_status            |-> df[i].odoo_delivery_status,
         odoo_order_name                 |-> df[i].odoo_order_name,
         odoo_shopify_order_number_lower |->
             StrLower(df[i].odoo_shopify_order_number),
         odoo_sku_lower                  |-> StrLower(df[i].odoo_sku)]]

\* the columns of a side that contributes no line to a joined row
NoShopify ==
    [shopify_order_number       |-> NULL,
     shopify_sku                |-> NULL,
     shopify_quantity           |-> NaN,
     shopify_price              |-> NaN,
     shopify_order_number_lower |-> NULL,
     shopify_sku_lower          |-> NULL]

NoOdoo ==
    [odoo_shopify_order_number       |-> NULL,
     odoo_sku                        |-> NULL,
     odoo_quantity                   |-> NaN,
     odoo_price                      |-> NaN,
     odoo_delivery_status            |-> NULL,
     odoo_order_name                 |-> NULL,
     odoo_shopify_order_number_lower |-> NULL,
     odoo_sku_lower                  |-> NULL]

\* the merge condition: both key columns equal; pandas matches a missing
\* key value with a missing key value
KeysMatch(l, r) ==
    /\ l.shopify_order_number_lower = r.odoo_shopify_order_number_lower
    /\ l.shopify_sku_lower = r.odoo_sku_lower

\* OuterMerge as a left join: the ERP lines without storefront line are lost
OuterMerge_LeftJoin(S, O) ==
    {S[i] @@ O[j] @@ [li |-> i, ri |-> j] :
        <<i, j>> \in {p \in (1..Len(S)) \X (1..Len(O)) :
                        KeysMatch(S[p[1]], O[p[2]])}}
    \cup
    {S[i] @@ NoOdoo @@ [li |-> i, ri |-> 0] :
        i \in {a \in 1..Len(S) :
                 \A j \in 1..Len(O) : ~KeysMatch(S[a], O[j])}}

\* OuterMerge that pairs a storefront line with its first ERP match only
OuterMerge_FirstMatch(S, O) ==
    {S[i] @@ O[j] @@ [li |-> i, ri |-> j] :
        <<i, j>> \in {p \in (1..Len(S)) \X (1..Len(O)) :
                        /\ KeysMatch(S[p[1]], O[p[2]])
                        /\ \A q \in 1..(p[2] - 1) :
                              ~KeysMatch(S[p[1]], O[q])}}
    \cup
    {S[i] @@ NoOdoo @@ [li |-> i, ri |-> 0] :
        i \in {a \in 1..Len(S) :
                 \A j \in 1..Len(O) : ~KeysMatch(S[a], O[j])}}
    \cup
    {NoShopify @@ O[j] @@ [li |-> 0, ri |-> j] :
        j \in {b \in 1..Len(O) :
                 \A i \in 1..Len(S) : ~KeysMatch(S[i], O[b])}}

\* pd.merge(how='outer').  A joined row keeps the positions li, ri of the
\* lines it was made of (0: none), which stand for the identity of the
\* row; the order of the rows of the result is not represented.
OuterMerge(S, O) ==
    {S[i] @@ O[j] @@ [li |-> i, ri |-> j] :
        <<i, j>> \in {p \in (1..Len(S)) \X (1..Len(O)) :
                        KeysMatch(S[p[1]], O[p[2]])}}
    \cup
    {S[i] @@ NoOdoo @@ [li |-> i, ri |-> 0] :
        i \in {a \in 1..Len(S) :
                 \A j \in 1..Len(O) : ~KeysMatch(S[a], O[j])}}
    \cup
    {NoShopify @@ O[j] @@ [li |-> 0, ri |-> j] :
        j \in {b \in 1..Len(O) :
                 \A i \in 1..Len(S) : ~KeysMatch(S[i], O[b])}}

\* in_shopify read from the SKU column instead of the order number
in_shopify_BySku(row) == row.shopify_sku # NULL

in_shopify(row) == row.shopify_order_number # NULL

in_odoo(row) == row.odoo_shopify_order_number # NULL

\* quantity_match without the clause for two missing quantities
quantity_match_NoNullClause(row) ==
    FEq(row.shopify_quantity, row.odoo_quantity)

quantity_match(row) ==
    \/ FEq(row.shopify_quantity, row.odoo_quantity)
    \/ (row.shopify_quantity = NaN /\ row.odoo_quantity = NaN)

price_match(row) ==
    \/ FLess(FAbsDiff(row.shopify_price, row.odoo_price), PriceTolerance)
    \/ (row.shopify_price = NaN /\ row.odoo_price = NaN)

\* the comparison columns of a joined row
AddComparison(row) ==
    row @@ [in_shopify     |-> in_shopify(row),
            in_odoo        |-> in_odoo(row),
            quantity_match |-> quantity_match(row),
            price_match    |-> price_match(row)]

\* get_sync_status that tests the quantities before the presence on the ERP
get_sync_status_QuantityFirst(row) ==
    IF ~row.in_shopify THEN "Missing in Shopify"
    ELSE IF ~row.quantity_match THEN "Quantity mismatch"
    ELSE IF ~row.in_odoo THEN "Missing in Odoo"
    ELSE IF ~row.price_match THEN "Price mismatch"
    ELSE "Synced"

get_sync_status(row) ==
    IF ~row.in_shopify THEN "Missing in Shopify"
    ELSE IF ~row.in_odoo THEN "Missing in Odoo"
    ELSE IF ~row.quantity_match THEN "Quantity mismatch"
    ELSE IF ~row.price_match THEN "Price mismatch"
    ELSE "Synced"

\* compare_orders(shopify_df, odoo_df): the classified outer join.  The
\* comparison_date column (the wall clock) is left out.
compare_orders(shopify_df, odoo_df) ==
    {LET c == AddComparison(row)
     IN  c @@ [sync_status |-> get_sync_status(c)] :
        row \in OuterMerge(PrepareShopify(shopify_df), PrepareOdoo(odoo_df))}

\* the key columns save_comparison_results drops before writing
columns_to_drop ==
    {"shopify_order_number_lower", "shopify_sku_lower",
     "odoo_shopify_order_number_lower", "odoo_sku_lower"}

DropColumns(row) == [c \in (DOMAIN row) \ columns_to_drop |-> row[c]]

(***************************************************************************)
(* create_excel_report.py: the report tables                               *)
(***************************************************************************)

\* the suffix appended to a mapped base SKU
UnitSuffix == <<"-", "0", "1", "G">>

\* SQL '=' in a join condition: true only for two equal non-NULL values
SqlEq(a, b) == a # NULL /\ b # NULL /\ a = b

\* the CASE expression without the '-01G' suffix
BaseSku_NoSuffix(lineitem_sku, base_sku) ==
    IF base_sku = NULL THEN lineitem_sku ELSE base_sku

\* the CASE expression with the suffix appended in both branches
BaseSku_SuffixAlways(lineitem_sku, base_sku) ==
    IF base_sku = NULL THEN lineitem_sku \o UnitSuffix
    ELSE base_sku \o UnitSuffix

\* the CASE expression that computes the SKU column
BaseSku(lineitem_sku, base_sku) ==
    IF base_sku = NULL THEN lineitem_sku ELSE base_sku \o UnitSuffix

\* the join with legacy_lookup as an inner join: a row without lookup row
\* yields nothing
BaseSkuRowsOf_InnerJoin(A, lookup) ==
    LET hits == SelectSeq(lookup,
                          LAMBDA B : SqlEq(A.Lineitem_sku, B.legacy_sku))
    IN  [k \in 1..Len(hits) |->
            [Name              |-> A.Name,
             SKU               |-> hits[k].base_sku \o UnitSuffix,
             Lineitem_quantity |-> A.Lineitem_quantity,
             Lineitem_price    |-> A.Lineitem_price]]

\* the rows one shopify_orders row A yields in the LEFT OUTER JOIN with
\* legacy_lookup: one per matching lookup row, one if none matches
BaseSkuRowsOf(A, lookup) ==
    LET hits == SelectSeq(lookup,
                          LAMBDA B : SqlEq(A.Lineitem_sku, B.legacy_sku))
        Row(base_sku) ==
            [Name              |-> A.Name,
             SKU               |-> BaseSku(A.Lineitem_sku, base_sku),
             Lineitem_quantity |-> A.Lineitem_quantity,
             Lineitem_price    |-> A.Lineitem_price]
    IN  IF hits = <<>> THEN <<Row(NULL)>>
        ELSE [k \in 1..Len(hits) |-> Row(hits[k].base_sku)]

RECURSIVE BaseSkuRows(_, _, _)
\* the rows of CREATE TABLE shopify_orders_basesku AS SELECT ..., from the
\* i-th row of shopify_orders on
BaseSkuRows(orders, lookup, i) ==
    IF i > Len(orders) THEN <<>>
    ELSE BaseSkuRowsOf(orders[i], lookup) \o BaseSkuRows(orders, lookup, i + 1)

\* the ON condition of the report join
ReportJoinOn(A, B) ==
    SqlEq(A.Name, B.Odoo_Name) /\ SqlEq(A.SKU, B.Product_Default_Code)

\* the rows of CREATE TABLE excel_report AS SELECT ... LEFT OUTER JOIN
\* odoo_orders.  A row keeps the positions ai, oi of the rows it was made
\* of (oi = 0: no ERP row); the ORDER BY is not represented.
ExcelReportRows(basesku, odoo) ==
    {[ai |-> a, oi |-> o,
      Name            |-> basesku[a].Name,
      SKU             |-> basesku[a].SKU,
      Qty             |-> basesku[a].Lineitem_quantity,
      Delivery_Status |-> odoo[o].Delivery_Status] :
        <<a, o>> \in {p \in (1..Len(basesku)) \X (1..Len(odoo)) :
                        ReportJoinOn(basesku[p[1]], odoo[p[2]])}}
    \cup
    {[ai |-> a, oi |-> 0,
      Name            |-> basesku[a].Name,
      SKU             |-> basesku[a].SKU,
      Qty             |-> basesku[a].Lineitem_quantity,
      Delivery_Status |-> NULL] :
        a \in {x \in 1..Len(basesku) :
                 \A o \in 1..Len(odoo) : ~ReportJoinOn(basesku[x], odoo[o])}}

(***************************************************************************)
(* Shopify_Odoo_Stock_Cross_Ref/get_odoo_stock_current.py: item codes      *)
(***************************************************************************)

\* str.strip(): the text without its leading and trailing blanks
StrStrip(s) ==
    LET kept == {i \in 1..Len(s) : s[i] # " "}
    IN  IF kept = {} THEN <<>>
        ELSE SubSeq(s, CHOOSE i \in kept : \A j \in kept : i <= j,
                       CHOOSE i \in kept : \A j \in kept : i >= j)

\* extract_default_code applied to the display name of a product:
\* re.search(r'\[(.*?)\]'), the text between the first '[' and the first
\* ']' after it, stripped; '' when there is none
extract_default_code(fieldvalue) ==
    LET opens  == {i \in 1..Len(fieldvalue) : fieldvalue[i] = "["}
        first  == CHOOSE i \in opens : \A j \in opens : i <= j
        closes == {i \in 1..Len(fieldvalue) :
                      fieldvalue[i] = "]" /\ (opens # {} => i > first)}
        last   == CHOOSE i \in closes : \A j \in closes : i <= j
    IN  IF opens = {} \/ closes = {} THEN <<>>
        ELSE StrStrip(SubSeq(fieldvalue, first + 1, last - 1))

\* the positions of the '-' characters of a code
Hyphens(default_code) ==
    {i \in 1..Len(default_code) : default_code[i] = "-"}

\* default_code.split('-'): the parts between the '-' characters, one more
\* than there are '-'
SplitCode(default_code) ==
    LET H == Hyphens(default_code)
        \* the position of the m-th '-'; 0 and Len + 1 stand for the ends
        At(m) == IF m = 0 THEN 0
                 ELSE IF m > Cardinality(H) THEN Len(default_code) + 1
                 ELSE CHOOSE i \in H :
                          Cardinality({j \in H : j < i}) = m - 1
    IN  [m \in 1..(Cardinality(H) + 1) |->
            SubSeq(default_code, At(m - 1) + 1, At(m) - 1)]

RECURSIVE JoinParts(_, _)
\* sep.join(parts)
JoinParts(parts, sep) ==
    IF parts = <<>> THEN <<>>
    ELSE IF Len(parts) = 1 THEN parts[1]
    ELSE parts[1] \o sep \o JoinParts(Tail(parts), sep)

\* get_plant_prefix with the parts joined without the '-'
get_plant_prefix_Unjoined(default_code) ==
    LET parts == SplitCode(default_code)
    IN  JoinParts(SubSeq(parts, 1, Len(parts) - 1), <<>>)

\* parts = default_code.split('-'); return '-'.join(parts[:-1])
get_plant_prefix(default_code) ==
    LET parts == SplitCode(default_code)
    IN  JoinParts(SubSeq(parts, 1, Len(parts) - 1), <<"-">>)

\* parts = default_code.split('-'); the last part when there is more than
\* one, '' otherwise
get_suffix(default_code) ==
    LET parts == SplitCode(default_code)
    IN  IF Len(parts) > 1 THEN parts[Len(parts)] ELSE <<>>

(***************************************************************************)
(* The SQL of the stock reports                                            *)
(***************************************************************************)

\* a numeric cell: a whole number of units or NULL.  Stock is counted in
\* whole plants; float64 is exact on such numbers and their differences.
Num(n) == [null |-> FALSE, n |-> n]

NullNum == [null |-> TRUE, n |-> 0]

\* SQL comparisons, true only when no operand is NULL
NumEq(a, b) == ~a.null /\ ~b.null /\ a.n = b.n

NumGt(a, b) == ~a.null /\ ~b.null /\ a.n > b.n

\* ABS(a - b) <= d
NumWithin(a, b, d) ==
    /\ ~a.null /\ ~b.null
    /\ (IF a.n >= b.n THEN a.n - b.n ELSE b.n - a.n) <= d

\* SQL '!=' on texts, true only for two different non-NULL values
SqlNe(a, b) == a # NULL /\ b # NULL /\ a # b

RECURSIVE LikeFrom(_, _, _, _)
\* the text s from position i on matches the LIKE pattern from position j
\* on: '%' stands for any text, '_' for any character, letters match
\* without regard to case
LikeFrom(s, i, pattern, j) ==
    IF j > Len(pattern) THEN i > Len(s)
    ELSE IF pattern[j] = "%"
    THEN \E k \in i..(Len(s) + 1) : LikeFrom(s, k, pattern, j + 1)
    ELSE /\ i <= Len(s)
         /\ (pattern[j] = "_" \/ LowerChar(s[i]) = LowerChar(pattern[j]))
         /\ LikeFrom(s, i + 1, pattern, j + 1)

\* s LIKE pattern
SqlLike(s, pattern) ==
    s # NULL /\ pattern # NULL /\ LikeFrom(s, 1, pattern, 1)

(***************************************************************************)
(* get_odoo_stock_current.py: the stock tables                             *)
(***************************************************************************)

\* clean_fields: a relation field [id, display name] becomes the name
clean_fields(fieldvalue) == fieldvalue.name

\* df_stock: the quants with the relation fields cleaned and the columns
\* default_code, plant_prefix and size_suffix added
OdooStockRows(quants) ==
    [i \in DOMAIN quants |->
        LET default_code == extract_default_code(quants[i].product_id.name)
        IN  [product_id         |-> clean_fields(quants[i].product_id),
             location_id        |-> clean_fields(quants[i].location_id),
             quantity           |-> quants[i].quantity,
             available_quantity |-> quants[i].available_quantity,
             default_code       |-> default_code,
             plant_prefix       |-> get_plant_prefix(default_code),
             size_suffix        |-> get_suffix(default_code)]]

RECURSIVE SumFrom(_, _)
\* the sum of the numbers of a sequence from position i on
SumFrom(numbers, i) ==
    IF i > Len(numbers) THEN 0 ELSE numbers[i] + SumFrom(numbers, i + 1)

\* CREATE TABLE odoo_total_stock: the quantities summed by product,
\* location and code.  plant_sizes is taken to list every size once, so
\* that its join adds the column container_capacity, left out, and no row.
OdooTotalStock(stock) ==
    {[product_id   |-> stock[g].product_id,
      location_id  |-> stock[g].location_id,
      default_code |-> stock[g].default_code,
      plant_prefix |-> stock[g].plant_prefix,
      size_suffix  |-> stock[g].size_suffix,
      ODOO_QTY     |->
          Num(SumFrom([i \in DOMAIN stock |->
                    IF /\ stock[i].product_id = stock[g].product_id /\ stock[i].location_id = stock[g].location_id
                       THEN stock[i].quantity.n ELSE 0], 1)),
      ODOO_AVAILABLE_QTY |->
          Num(SumFrom([i \in DOMAIN stock |->
                    IF /\ stock[i].product_id = stock[g].product_id /\ stock[i].location_id = stock[g].location_id
                       THEN stock[i].available_quantity.n ELSE 0], 1))] :
        g \in DOMAIN stock}

\* CREATE TABLE loc_count: per product the number of locations whose total
\* is not zero
LocCount(total) ==
    {[product_id |-> p,
      loc_count  |-> Cardinality({r \in total :
                                    r.product_id = p /\ r.ODOO_QTY.n # 0})] :
        p \in {r.product_id : r \in {t \in total : t.ODOO_QTY.n # 0}}}

\* COALESCE(a, b, 0)
Coalesce(a, b) == IF ~a.null THEN a ELSE IF ~b.null THEN b ELSE Num(0)

\* the greatest number of a non-empty set of numbers
NumMax(S) == CHOOSE a \in S : \A b \in S : a.n >= b.n

\* the CTE combined_shopify: one row per sku of shopifyproducts, which is
\* taken to hold every sku once; the MAX ranges over the shopify_inventory
\* rows of the sku.  The columns committed and unavailable are left out.
CombinedShopify(products, inventory) ==
    {LET hits == {si \in inventory : SqlEq(sp.sku, si.sku)}
     IN  [sku    |-> sp.sku,
          status |-> sp.status,
          on_hand |->
              IF hits = {} THEN Coalesce(NullNum, sp.old_inventory_quantity)
              ELSE NumMax({Coalesce(si.on_hand, sp.old_inventory_quantity) :
                              si \in hits}),
          available |->
              IF hits = {} THEN Coalesce(NullNum, sp.inventory_quantity)
              ELSE NumMax({Coalesce(si.available, sp.inventory_quantity) :
                              si \in hits})] :
        sp \in {products[k] : k \in DOMAIN products}}

\* the tolerance of the potential_size_mismatches CTE
SizeTolerance == 5

\* SQL '||': NULL when an operand is NULL
SqlConcat(a, b) == IF a = NULL \/ b = NULL THEN NULL ELSE a \o b

\* the mismatch_note of a potential size mismatch; the literal parts of
\* the note are kept as single elements of the text
MismatchNote(odoo_size, correct_size) ==
    SqlConcat(SqlConcat(SqlConcat(SqlConcat(
        <<"Size mismatch: Odoo has ">>, odoo_size),
        <<" but Shopify has ">>), correct_size),
        <<" with matching quantity">>)

\* the CTE potential_size_mismatches (SELECT DISTINCT)
PotentialSizeMismatches(stock, products) ==
    {[odoo_sku            |-> stock[p[1]].default_code,
      odoo_size           |-> stock[p[1]].size_suffix,
      odoo_qty            |-> stock[p[1]].quantity,
      correct_shopify_sku |-> products[p[2]].sku,
      correct_size        |-> products[p[2]].option1,
      shopify_qty         |-> products[p[2]].inventory_quantity,
      mismatch_note       |-> MismatchNote(stock[p[1]].size_suffix,
                                           products[p[2]].option1)] :
        p \in {q \in (DOMAIN stock) \X (DOMAIN products) :
                 LET o  == stock[q[1]]
                     s2 == products[q[2]]
                     s1 == {k \in DOMAIN products :
                               SqlEq(o.default_code, products[k].sku)}
                 IN  /\ o.plant_prefix # <<>>
                     /\ SqlLike(s2.sku,
                                SqlConcat(o.plant_prefix, <<"-", "%">>))
                     /\ SqlNe(s2.sku, o.default_code)
                     /\ NumGt(o.quantity, Num(0))
                     /\ \/ s1 = {}
                        \/ \E k \in s1 :
                              \/ NumEq(products[k].inventory_quantity, Num(0))
                              \/ products[k].inventory_quantity.null
                     /\ NumGt(s2.inventory_quantity, Num(0))
                     /\ NumWithin(o.quantity, s2.inventory_quantity,
                                  SizeTolerance)}}

t_active == <<"a", "c", "t", "i", "v", "e">>

\* the rows a LEFT OUTER JOIN yields for one row: the matching rows, or
\* the row of NULLs none
LeftJoin(hits, none) == IF hits = {} THEN {none} ELSE hits

\* CREATE TABLE stock_cross_reference.  The columns of the available,
\* committed and unavailable quantities and the title, computed like the
\* on-hand ones, are left out, and so is the ORDER BY.
StockCrossReference(total, counts, stock, products, inventory) ==
    LET psm == PotentialSizeMismatches(stock, products)
        combined == CombinedShopify(products, inventory)
        NoCS  == [sku |-> NULL, status |-> NULL, on_hand |-> NullNum,
                  available |-> NullNum]
        NoC   == [product_id |-> NULL, loc_count |-> 0]
        NoPsm == [odoo_sku |-> NULL, odoo_size |-> NULL, odoo_qty |-> NullNum,
                  correct_shopify_sku |-> NULL, correct_size |-> NULL,
                  shopify_qty |-> NullNum, mismatch_note |-> NULL]
    IN  UNION {
          {[product_id             |-> A.product_id,
            location_id            |-> A.location_id,
            loc_count              |-> C.loc_count,
            ODOO_ONHAND_QTY        |-> A.ODOO_QTY,
            SHOPIFY_ONHAND_QTY     |-> CS.on_hand,
            DIFF_ONHAND            |->
                IF CS.on_hand.null THEN NullNum
                ELSE Num(A.ODOO_QTY.n - CS.on_hand.n),
            Status                 |-> CS.status,
            Potential_Correct_SKU  |-> m.correct_shopify_sku,
            Potential_Correct_Size |-> m.correct_size,
            Size_Mismatch_Note     |-> m.mismatch_note] :
              CS \in {x \in LeftJoin({c \in combined :
                                        SqlEq(A.default_code, c.sku)}, NoCS) :
                         x.status = t_active \/ x.status = NULL},
              C  \in LeftJoin({c \in counts : c.product_id = A.product_id},
                              NoC),
              m  \in LeftJoin({x \in psm : SqlEq(A.default_code, x.odoo_sku)},
                              NoPsm)} :
          A \in {t \in total : t.ODOO_QTY.n # 0}}

(***************************************************************************)
(* import_shopify_inventory.py: the storefront inventory                   *)
(***************************************************************************)

\* a cell of the inventory export: a number or the text 'not stocked'
Cell(n) == [stocked |-> TRUE, n |-> n]

NotStocked == [stocked |-> FALSE, n |-> 0]

\* pd.to_numeric(x, errors='coerce').fillna(0) on one cell
CellValue(cell) == IF cell.stocked THEN cell.n ELSE 0

\* inventory_by_sku: the rows whose 'Available' is not 'not stocked',
\* grouped by SKU, the quantities summed and the first option value kept.
\* The columns incoming, unavailable and committed, summed alike, the
\* title, the handle and the import date are left out.
InventoryBySku(rows) ==
    LET stocked == SelectSeq(rows, LAMBDA r : r.Available # NotStocked)
    IN  {[sku          |-> k,
          option_value |->
              stocked[CHOOSE i \in DOMAIN stocked :
                          stocked[i].SKU = k
                          /\ \A j \in 1..(i - 1) : stocked[j].SKU # k]
              .Option1_Value,
          available    |-> Num(SumFrom([i \in DOMAIN stocked |->
                    IF stocked[i].SKU = k
                       THEN CellValue(stocked[i].Available) ELSE 0], 1)),
          on_hand      |-> Num(SumFrom([i \in DOMAIN stocked |->
                    IF stocked[i].SKU = k
                       THEN CellValue(stocked[i].On_hand) ELSE 0], 1))] :
            k \in {stocked[i].SKU : i \in DOMAIN stocked} \ {NULL}}

\* the rows of the view stock_cross_reference_extended; oi is the position
\* of the odoostock row, the ORDER BY is not represented
StockCrossReferenceExtended(stock, inventory) ==
    LET NoSi == [sku |-> NULL, option_value |-> NULL, available |-> NullNum,
                 on_hand |-> NullNum]
    IN  UNION {
          {[oi              |-> o,
            product_id      |-> stock[o].product_id,
            location_id     |-> stock[o].location_id,
            odoo_sku        |-> stock[o].default_code,
            odoo_quantity   |-> stock[o].quantity,
            shopify_sku     |-> si.sku,
            shopify_option  |-> si.option_value,
            shopify_on_hand |-> si.on_hand,
            quantity_diff   |->
                IF si.on_hand.null THEN stock[o].quantity
                ELSE Num(stock[o].quantity.n - si.on_hand.n)] :
              si \in {x \in LeftJoin({y \in inventory :
                                        SqlEq(stock[o].default_code, y.sku)},
                                     NoSi) :
                         \/ NumGt(stock[o].quantity, Num(0))
                         \/ NumGt(x.on_hand, Num(0))}} :
          o \in DOMAIN stock}

\* the WHERE clause of the SKU mismatch query
CrossedSignature(o1, o2, si1, si2) ==
    /\ NumGt(o1.quantity, Num(0)) /\ NumEq(o2.quantity, Num(0))
    /\ NumEq(si1.on_hand, Num(0)) /\ NumGt(si2.on_hand, Num(0))

\* the join of the SKU mismatch query with the size suffixes not compared
SizeVariants_AnySuffix(o1, o2) == SqlEq(o1.plant_prefix, o2.plant_prefix)

\* the ON clause that joins odoostock with itself in the SKU mismatch query
SizeVariants(o1, o2) ==
    /\ SqlEq(o1.plant_prefix, o2.plant_prefix)
    /\ SqlNe(o1.size_suffix, o2.size_suffix)

\* the rows of the SKU mismatch query; i1 and i2 are the positions of the
\* two odoostock rows
SkuMismatches(stock, inventory) ==
    {[i1 |-> q[1], i2 |-> q[2],
      odoo_sku1     |-> stock[q[1]].default_code,
      odoo_qty1     |-> stock[q[1]].quantity,
      odoo_size1    |-> stock[q[1]].size_suffix,
      odoo_sku2     |-> stock[q[2]].default_code,
      odoo_qty2     |-> stock[q[2]].quantity,
      odoo_size2    |-> stock[q[2]].size_suffix,
      shopify_sku1  |-> q[3].sku,
      shopify_qty1  |-> q[3].on_hand,
      shopify_size1 |-> q[3].option_value,
      shopify_sku2  |-> q[4].sku,
      shopify_qty2  |-> q[4].on_hand,
      shopify_size2 |-> q[4].option_value] :
        q \in {r \in (DOMAIN stock) \X (DOMAIN stock)
                       \X inventory \X inventory :
                 /\ SizeVariants(stock[r[1]], stock[r[2]])
                 /\ SqlEq(stock[r[1]].default_code, r[3].sku)
                 /\ SqlEq(stock[r[2]].default_code, r[4].sku)
                 /\ CrossedSignature(stock[r[1]], stock[r[2]], r[3], r[4])}}

(***************************************************************************)
(* The database and the two programs                                       *)
(***************************************************************************)

VARIABLES
    shopify_orders,          \* table written by update_shopify_orders.py
    odoo_orders,             \* table written by refresh_odoo_orders.py
    legacy_lookup,           \* table written by create_materials_db.py
    shopify_orders_basesku,  \* table of create_excel_report.py
    excel_report,            \* table of create_excel_report.py
    order_comparison,        \* table of compare_orders.py
    prog,                    \* the program that is running, or "none"
    pc,                      \* its position
    shopify_df,              \* compare_orders.py: the loaded frames
    odoo_df,
    comparison_df,           \* compare_orders.py: the result of the comparison
    last_exit                \* the program that ended last and its exit status

VARIABLES
    odoo_quants,             \* the stock.quant records the Odoo server holds
    inventory_export,        \* the newest inventory_export*.csv, if any
    shopifyproducts,         \* table of shopify_api_inventory_extractor.py
    shopify_inventory,       \* table of import_shopify_inventory.py
    stock_cross_reference_extended,  \* the view, as exported
    sku_mismatches,          \* the rows the SKU mismatch query returned
    odoostock,               \* tables of get_odoo_stock_current.py
    odoo_total_stock,
    loc_count,
    stock_cross_reference

VARIABLES
    world,                   \* what the program that runs is given: its
                             \* arguments, the files and the records it finds
    trace,                   \* the calls the program that ran last has made
    ret,                     \* what the function that ran last returned
    out                      \* the files the programs have written

\* the variables of the stock cross reference
stock_vars == <<odoo_quants, inventory_export, shopifyproducts,
                shopify_inventory, stock_cross_reference_extended,
                sku_mismatches, odoostock, odoo_total_stock, loc_count,
                stock_cross_reference>>

vars == <<shopify_orders, odoo_orders, legacy_lookup, shopify_orders_basesku,
          excel_report, order_comparison, prog, pc, shopify_df, odoo_df,
          comparison_df, last_exit, stock_vars, world, trace, ret, out>>

tables == <<shopify_orders, odoo_orders, legacy_lookup,
            shopify_orders_basesku, excel_report, order_comparison>>

Table(rows) == [exists |-> TRUE, rows |-> rows]

\* a table that does not exist (rows kept as a sequence, resp. a set)
NoTable == [exists |-> FALSE, rows |-> <<>>]

NoRowSet == [exists |-> FALSE, rows |-> {}]

(***************************************************************************)
(* The contents of the staged tables at the start                          *)
(***************************************************************************)

\* most lines a side stages in the tables that vary the join keys
MaxShopifyLines == 2

MaxOdooLines == 2

t_h1001  == <<"#", "1", "0", "0", "1">>
t_1001   == <<"1", "0", "0", "1">>
t_h1002  == <<"#", "1", "0", "0", "2">>
t_hA7    == <<"#", "A", "7">>
t_ha7    == <<"#", "a", "7">>
t_S042   == <<"S", "0", "4", "2">>
t_ABC    == <<"A", "B", "C">>
t_abc    == <<"a", "b", "c">>
t_abcSp  == <<"a", "b", "c", " ">>
t_empty  == <<>>
t_OLD    == <<"O", "L", "D">>
t_OLD01  == <<"O", "L", "D", "-", "0", "1">>
t_NEW    == <<"N", "E", "W">>
t_NEW01G == <<"N", "E", "W", "-", "0", "1", "G">>
t_full   == <<"f", "u", "l", "l">>
t_2      == <<"2">>
t_3      == <<"3">>
t_2p0    == <<"2", ".", "0">>
t_3p0    == <<"3", ".", "0">>
t_5p0    == <<"5", ".", "0">>
t_10p00  == <<"1", "0", ".", "0", "0">>
t_10p005 == <<"1", "0", ".", "0", "0", "5">>
t_10p01  == <<"1", "0", ".", "0", "1">>
t_10p02  == <<"1", "0", ".", "0", "2">>
t_10p0   == <<"1", "0", ".", "0">>
t_na     == <<"n", "/", "a">>

\* a row of shopify_orders (the columns the two programs read)
ShopifyRow(name, sku, qty, price) ==
    [Name |-> name, Lineitem_sku |-> sku,
     Lineitem_quantity |-> qty, Lineitem_price |-> price]

\* a row of odoo_orders (the columns the two programs read)
OdooRow(name, ref, sku, qty, price) ==
    [Odoo_Name |-> name, Shopify_Order_Number |-> ref,
     Product_Default_Code |-> sku, Product_Quantity |-> qty,
     Product_Unit_Price |-> price, Delivery_Status |-> t_full]

LegacyRow(legacy_sku, base_sku) ==
    [legacy_sku |-> legacy_sku, base_sku |-> base_sku]

\* the sequences of at most n lines drawn from lines in the order of lines
\* (neither join reads the position of a row)
TablesOf(lines, n) ==
    {[i \in DOMAIN f |-> lines[f[i]]] :
        f \in UNION {{g \in [1..k -> 1..Len(lines)] :
                        \A i \in 1..(k - 1) : g[i] <= g[i + 1]} : k \in 0..n}}

\* storefront lines that vary the key: letter case, a trailing blank, a
\* missing SKU
KeyShopifyLines ==
    <<ShopifyRow(t_h1001, t_ABC,   t_2, t_10p00),
      ShopifyRow(t_h1001, t_abcSp, t_2, t_10p00),
      ShopifyRow(t_hA7,   t_ABC,   t_2, t_10p00),
      ShopifyRow(t_h1001, NULL,    t_2, t_10p00)>>

\* ERP lines that vary the key: letter case, no '#', an order created in
\* the ERP by hand (no client_order_ref), a missing and an empty SKU
KeyOdooLines ==
    <<OdooRow(t_h1001, t_h1001, t_abc,   t_2p0, t_10p0),
      OdooRow(t_1001,  t_1001,  t_abc,   t_2p0, t_10p0),
      OdooRow(t_ha7,   t_ha7,   t_ABC,   t_2p0, t_10p0),
      OdooRow(t_S042,  NULL,    t_abc,   t_2p0, t_10p0),
      OdooRow(t_h1001, t_h1001, NULL,    t_2p0, t_10p0),
      OdooRow(t_h1001, t_h1001, t_empty, t_2p0, t_10p0)>>

LegacyOldNew == <<LegacyRow(t_OLD, t_NEW)>>

Input(s, o, l) == [s |-> s, o |-> o, l |-> l]

KeyInputs ==
    {Input(Table(s), Table(o), Table(LegacyOldNew)) :
        s \in TablesOf(KeyShopifyLines, MaxShopifyLines),
        o \in TablesOf(KeyOdooLines, MaxOdooLines)}

\* one line a side under the same key, the quantities and prices varied:
\* missing, numerals, a text that is no number
FieldInputs ==
    {Input(Table(<<ShopifyRow(t_h1002, t_ABC, sq, sp)>>),
           Table(<<OdooRow(t_h1002, t_h1002, t_abc, oq, op)>>),
           Table(LegacyOldNew)) :
        sq \in {NULL, t_2, t_3, t_na}, oq \in {NULL, t_2p0, t_3p0, t_5p0, t_na},
        sp \in {NULL, t_10p00, t_10p005, t_10p01, t_10p02, t_na},
        op \in {NULL, t_10p0, t_na}}

\* storefront lines under a legacy SKU, the lookup table varied: empty, a
\* mapping, a key without current code, a key listed twice, a current code
\* that is a key again
LegacyInputs ==
    {Input(Table([i \in DOMAIN skus |->
                     ShopifyRow(t_h1001, skus[i], t_2, t_10p00)]),
           Table(<<OdooRow(t_h1001, t_h1001, t_NEW01G, t_2p0, t_10p0)>>),
           Table(l)) :
        skus \in {<<t_OLD>>, <<t_OLD01>>, <<t_NEW01G>>, <<t_OLD, t_OLD01>>},
        l \in {<<>>, LegacyOldNew, <<LegacyRow(t_OLD, NULL)>>,
               <<LegacyRow(t_OLD, t_NEW), LegacyRow(t_OLD, t_ABC)>>,
               <<LegacyRow(t_OLD, t_NEW), LegacyRow(t_NEW01G, t_ABC)>>}}

\* a table that was never created
MissingInputs ==
    {Input(NoTable, Table(<<KeyOdooLines[1]>>), Table(LegacyOldNew)),
     Input(Table(<<KeyShopifyLines[1]>>), NoTable, Table(LegacyOldNew)),
     Input(Table(<<KeyShopifyLines[1]>>), Table(<<KeyOdooLines[1]>>), NoTable)}

Inputs == KeyInputs \cup FieldInputs \cup LegacyInputs \cup MissingInputs

NoExit == [prog |-> "none", code |-> 0]

\* the database without any table of the stock cross reference
NoStock ==
    /\ odoo_quants = <<>>
    /\ inventory_export = NoTable
    /\ shopifyproducts = NoTable
    /\ shopify_inventory = NoRowSet
    /\ stock_cross_reference_extended = NoRowSet
    /\ sku_mismatches = NoRowSet
    /\ odoostock = NoTable
    /\ odoo_total_stock = NoRowSet
    /\ loc_count = NoRowSet
    /\ stock_cross_reference = NoRowSet

Init ==
    /\ \E inp \in Inputs :
          /\ shopify_orders = inp.s
          /\ odoo_orders = inp.o
          /\ legacy_lookup = inp.l
    /\ shopify_orders_basesku = NoTable
    /\ excel_report = NoRowSet
    /\ order_comparison = NoRowSet
    /\ prog = "none"
    /\ pc = "idle"
    /\ shopify_df = <<>>
    /\ odoo_df = <<>>
    /\ comparison_df = {}
    /\ last_exit = NoExit
    /\ NoStock
    /\ world = [for |-> "none"]
    /\ trace = <<>>
    /\ ret = [kind |-> "none"]
    /\ out = [file |-> "none"]

(***************************************************************************)
(* compare_orders.py, __main__                                             *)
(***************************************************************************)

\* what sys.exit(code) and the normal end of a program leave behind
Exit(p, code) ==
    /\ prog' = "none"
    /\ pc' = "idle"
    /\ shopify_df' = <<>>
    /\ odoo_df' = <<>>
    /\ comparison_df' = {}
    /\ last_exit' = [prog |-> p, code |-> code]

check_tables_exist == shopify_orders.exists /\ odoo_orders.exists

\* connect_to_db fails: exit 1
CompareConnectFails ==
    /\ prog = "none"
    /\ Exit("compare_orders", 1)
    /\ UNCHANGED tables
    /\ UNCHANGED <<stock_vars, world, trace, ret, out>>

\* connect_to_db succeeds, then check_tables_exist
CompareStart ==
    /\ prog = "none"
    /\ IF check_tables_exist
       THEN /\ prog' = "compare_orders"
            /\ pc' = "load"
            /\ UNCHANGED <<shopify_df, odoo_df, comparison_df, last_exit>>
       ELSE Exit("compare_orders", 1)
    /\ UNCHANGED tables
    /\ UNCHANGED <<stock_vars, world, trace, ret, out>>

\* load both frames; abort if either is empty
CompareLoad ==
    /\ prog = "compare_orders" /\ pc = "load"
    /\ LET s == load_shopify_orders(shopify_orders)
           o == load_odoo_orders(odoo_orders)
       IN  IF s = <<>> \/ o = <<>>
           THEN Exit("compare_orders", 1)
           ELSE /\ shopify_df' = s
                /\ odoo_df' = o
                /\ pc' = "compare"
                /\ UNCHANGED <<prog, comparison_df, last_exit>>
    /\ UNCHANGED tables
    /\ UNCHANGED <<stock_vars, world, trace, ret, out>>

\* comparison_df = compare_orders(shopify_df, odoo_df); the function also
\* coerces and extends the two frames in place
CompareCompare ==
    /\ prog = "compare_orders" /\ pc = "compare"
    /\ comparison_df' = compare_orders(shopify_df, odoo_df)
    /\ shopify_df' = PrepareShopify(shopify_df)
    /\ odoo_df' = PrepareOdoo(odoo_df)
    /\ pc' = "save"
    /\ UNCHANGED <<prog, last_exit>>
    /\ UNCHANGED tables
    /\ UNCHANGED <<stock_vars, world, trace, ret, out>>

\* to_sql that adds the rows to those of the table (if_exists='append')
ToSqlReplace_Append(table, rows) == Table(table.rows \cup rows)

\* DataFrame.to_sql(if_exists='replace'): the table is dropped if it exists
\* and made anew of the rows of the frame
ToSqlReplace(table, rows) == Table(rows)

\* save_comparison_results: to_sql(if_exists='replace')
CompareSave ==
    /\ prog = "compare_orders" /\ pc = "save"
    /\ order_comparison' =
           ToSqlReplace(order_comparison,
                        {DropColumns(row) : row \in comparison_df})
    /\ pc' = "report"
    /\ UNCHANGED <<shopify_orders, odoo_orders, legacy_lookup,
                   shopify_orders_basesku, excel_report>>
    /\ UNCHANGED <<prog, shopify_df, odoo_df, comparison_df, last_exit>>
    /\ UNCHANGED <<stock_vars, world, trace, ret, out>>

\* save_comparison_results raises: the error is printed and the run goes on
CompareSaveFails ==
    /\ prog = "compare_orders" /\ pc = "save"
    /\ pc' = "report"
    /\ UNCHANGED tables
    /\ UNCHANGED <<prog, shopify_df, odoo_df, comparison_df, last_exit>>
    /\ UNCHANGED <<stock_vars, world, trace, ret, out>>

\* generate_sync_report, the optional CSV export, close: the normal end
CompareFinish ==
    /\ prog = "compare_orders" /\ pc = "report"
    /\ Exit("compare_orders", 0)
    /\ UNCHANGED tables
    /\ UNCHANGED <<stock_vars, world, trace, ret, out>>

(***************************************************************************)
(* create_excel_report.py, main                                            *)
(***************************************************************************)

\* connect_to_db fails: exit 1
ReportConnectFails ==
    /\ prog = "none"
    /\ Exit("create_excel_report", 1)
    /\ UNCHANGED tables
    /\ UNCHANGED <<stock_vars, world, trace, ret, out>>

ReportStart ==
    /\ prog = "none"
    /\ prog' = "create_excel_report"
    /\ pc' = "basesku"
    /\ UNCHANGED <<shopify_df, odoo_df, comparison_df, last_exit>>
    /\ UNCHANGED tables
    /\ UNCHANGED <<stock_vars, world, trace, ret, out>>

\* create_shopify_orders_basesku: DROP TABLE IF EXISTS, then CREATE TABLE
\* AS SELECT, which fails when a table it reads does not exist
create_shopify_orders_basesku ==
    /\ prog = "create_excel_report" /\ pc = "basesku"
    /\ IF shopify_orders.exists /\ legacy_lookup.exists
       THEN /\ shopify_orders_basesku' =
                   Table(BaseSkuRows(shopify_orders.rows,
                                     legacy_lookup.rows, 1))
            /\ pc' = "excel_report"
            /\ UNCHANGED <<prog, shopify_df, odoo_df, comparison_df,
                           last_exit>>
       ELSE /\ shopify_orders_basesku' = NoTable
            /\ Exit("create_excel_report", 1)
    /\ UNCHANGED <<shopify_orders, odoo_orders, legacy_lookup, excel_report,
                   order_comparison>>
    /\ UNCHANGED <<stock_vars, world, trace, ret, out>>

\* create_excel_report: DROP TABLE IF EXISTS, then CREATE TABLE AS SELECT
create_excel_report ==
    /\ prog = "create_excel_report" /\ pc = "excel_report"
    /\ IF odoo_orders.exists
       THEN /\ excel_report' =
                   Table(ExcelReportRows(shopify_orders_basesku.rows,
                                         odoo_orders.rows))
            /\ pc' = "export"
            /\ UNCHANGED <<prog, shopify_df, odoo_df, comparison_df,
                           last_exit>>
       ELSE /\ excel_report' = NoRowSet
            /\ Exit("create_excel_report", 1)
    /\ UNCHANGED <<shopify_orders, odoo_orders, legacy_lookup,
                   shopify_orders_basesku, order_comparison>>
    /\ UNCHANGED <<stock_vars, world, trace, ret, out>>

\* export_to_excel and upload_to_odoo: both succeed (exit 0) or one of them
\* fails (exit 1)
ReportFinish ==
    /\ prog = "create_excel_report" /\ pc = "export"
    /\ \E code \in {0, 1} : Exit("create_excel_report", code)
    /\ UNCHANGED tables
    /\ UNCHANGED <<stock_vars, world, trace, ret, out>>

(***************************************************************************)
(* update_shopify_orders.py, __main__                                      *)
(***************************************************************************)

\* what fetch_shopify_orders returns: None or a list of orders
Fetched(ok, orders) == [ok |-> ok, orders |-> orders]

\* fetch_shopify_orders returned None
FetchFailed == Fetched(FALSE, <<>>)

\* an order line as fetched and flattened, with its 'Financial Status'
FetchedLine(row, status) == [row |-> row, Financial_Status |-> status]

t_paid    == <<"p", "a", "i", "d">>
t_pending == <<"p", "e", "n", "d", "i", "n", "g">>

\* what a fetch can return: a failure, no order, orders paid or not
FetchedOrders ==
    {FetchFailed,
     Fetched(TRUE, <<>>),
     Fetched(TRUE,
         <<FetchedLine(ShopifyRow(t_h1002, t_ABC, t_3, t_10p00), t_pending)>>),
     Fetched(TRUE,
         <<FetchedLine(ShopifyRow(t_h1002, t_ABC, t_3, t_10p00), t_paid)>>),
     Fetched(TRUE,
         <<FetchedLine(ShopifyRow(t_h1001, t_ABC, t_2, t_10p00), t_paid),
           FetchedLine(ShopifyRow(t_h1002, t_ABC, t_3, t_10p00), t_pending),
           FetchedLine(ShopifyRow(t_hA7, t_ABC, t_3, t_10p00), t_paid)>>)}

\* the rows of all the fetched lines, paid or not
PaidRows_AllLines(fetched) == [i \in 1..Len(fetched) |-> fetched[i].row]

\* orders_df[orders_df['Financial Status'] == 'paid'], as table rows
PaidRows(fetched) ==
    LET paid == SelectSeq(fetched, LAMBDA o : o.Financial_Status = t_paid)
    IN  [i \in 1..Len(paid) |-> paid[i].row]

\* a run of update_shopify_orders.py: fetch, flatten, filter, then drop,
\* create and fill shopify_orders.  The drop and the create are committed
\* one by one, so a database error leaves the old table, no table or an
\* empty one.  trace keeps what the fetch of the run returned.
update_shopify_orders ==
    /\ prog = "none"
    /\ \E fetched \in FetchedOrders :
          /\ trace' = <<[call |-> "fetch_shopify_orders",
                         fetched |-> fetched]>>
          /\ IF ~fetched.ok
             THEN /\ Exit("update_shopify_orders", 1)
                  /\ UNCHANGED shopify_orders
             ELSE IF fetched.orders = <<>> \/ PaidRows(fetched.orders) = <<>>
             THEN /\ Exit("update_shopify_orders", 0)
                  /\ UNCHANGED shopify_orders
             ELSE \/ /\ shopify_orders' = Table(PaidRows(fetched.orders))
                     /\ Exit("update_shopify_orders", 0)
                  \/ /\ shopify_orders' \in
                            {shopify_orders, NoTable, Table(<<>>)}
                     /\ Exit("update_shopify_orders", 1)
    /\ UNCHANGED <<odoo_orders, legacy_lookup, shopify_orders_basesku,
                   excel_report, order_comparison>>
    /\ UNCHANGED <<stock_vars, world, ret, out>>

\* a run of refresh_odoo_orders.py: connect, fetch and flatten, then drop
\* odoo_orders, create it and fill it from a temporary table.  Without a
\* connection, or when the fetch fails, the run ends with status 1; when
\* the fetch returns no order it ends with status 0 and the table stays;
\* the drop and the create are committed one by one, so a database error
\* leaves the old table, no table or an empty one.  trace keeps what the
\* fetch of the run returned.
refresh_odoo_orders ==
    /\ prog = "none"
    /\ \E fetched \in
             {Fetched(FALSE, <<>>), Fetched(TRUE, <<>>),
              Fetched(TRUE, <<KeyOdooLines[1]>>),
              Fetched(TRUE, <<OdooRow(t_h1002, t_h1002, t_abc, t_3p0, t_10p0),
                              KeyOdooLines[3]>>)} :
          \/ /\ trace' = <<>>
             /\ UNCHANGED odoo_orders
             /\ Exit("refresh_odoo_orders", 1)
          \/ /\ trace' = <<[call |-> "fetch_odoo_orders",
                            fetched |-> fetched]>>
             /\ IF ~fetched.ok
                THEN /\ Exit("refresh_odoo_orders", 1)
                     /\ UNCHANGED odoo_orders
                ELSE IF fetched.orders = <<>>
                THEN /\ Exit("refresh_odoo_orders", 0)
                     /\ UNCHANGED odoo_orders
                ELSE \/ /\ odoo_orders' = Table(fetched.orders)
                        /\ Exit("refresh_odoo_orders", 0)
                     \/ /\ odoo_orders' \in
                               {odoo_orders, NoTable, Table(<<>>)}
                        /\ Exit("refresh_odoo_orders", 1)
    /\ UNCHANGED <<shopify_orders, legacy_lookup, shopify_orders_basesku,
                   excel_report, order_comparison>>
    /\ UNCHANGED <<stock_vars, world, ret, out>>

Next ==
    \/ CompareConnectFails
    \/ CompareStart
    \/ CompareLoad
    \/ CompareCompare
    \/ CompareSave
    \/ CompareSaveFails
    \/ CompareFinish
    \/ ReportConnectFails
    \/ ReportStart
    \/ create_shopify_orders_basesku
    \/ create_excel_report
    \/ ReportFinish

Spec == Init /\ [][Next]_vars

(***************************************************************************)
(* Runs of the programs over a database that is staged anew in between     *)
(***************************************************************************)

\* the database at the start: one storefront line and two ERP lines
InitRuns ==
    /\ shopify_orders = Table(<<KeyShopifyLines[1]>>)
    /\ odoo_orders \in {Table(<<KeyOdooLines[1], KeyOdooLines[3]>>),
                         Table(<<OdooRow(t_h1002, t_h1002, t_abc,
                                         t_3p0, t_10p0)>>)}
    /\ legacy_lookup = Table(LegacyOldNew)
    /\ shopify_orders_basesku = NoTable
    /\ excel_report = NoRowSet
    /\ order_comparison = NoRowSet
    /\ prog = "none"
    /\ pc = "idle"
    /\ shopify_df = <<>>
    /\ odoo_df = <<>>
    /\ comparison_df = {}
    /\ last_exit = NoExit
    /\ NoStock
    /\ world = [for |-> "none"]
    /\ trace = <<>>
    /\ ret = [kind |-> "none"]
    /\ out = [file |-> "none"]

NextRuns ==
    \/ update_shopify_orders
    \/ refresh_odoo_orders
    \/ Next

SpecRuns == InitRuns /\ [][NextRuns]_vars

(***************************************************************************)
(* The stock cross-reference: its inputs and the two programs              *)
(***************************************************************************)

\* item codes
c_AB1G == <<"A", "B", "-", "1", "G">>

c_AB3G == <<"A", "B", "-", "3", "G">>

c_ABC3G == <<"A", "B", "-", "C", "-", "3", "G">>

c_AB == <<"A", "B">>

\* the display name of the product with an item code, '[code] name'
DisplayName(code) ==
    <<"[">> \o code \o <<"]", " ", "A", "b", "e", "l", "i", "a">>

\* a stock.quant record as models.execute_kw(... 'read' ...) returns it
Quant(id, name, location, quantity) ==
    [product_id         |-> [id |-> id, name |-> name],
     location_id        |-> [id |-> Len(location), name |-> location],
     quantity           |-> Num(quantity),
     available_quantity |-> Num(quantity)]

\* a row of shopifyproducts
ProductRow(sku, option1, inventory_quantity, status) ==
    [sku |-> sku, option1 |-> option1,
     inventory_quantity     |-> inventory_quantity,
     old_inventory_quantity |-> inventory_quantity,
     status |-> status]

\* a row of the inventory export
ExportRow(SKU, Available, On_hand, Option1_Value) ==
    [SKU |-> SKU, Available |-> Available, On_hand |-> On_hand,
     Option1_Value |-> Option1_Value]

\* the export rows of one sku, one for each of the cells
ExportRowsOf(sku, size, cells) ==
    [i \in DOMAIN cells |-> ExportRow(sku, cells[i], cells[i], size)]

\* the cells of a sku in the export: a number on hand (oversold, none,
\* some), 'not stocked', a number at each of two locations, or no row
ShopCells ==
    {<<Cell(-2)>>, <<Cell(0)>>, <<Cell(4)>>, <<>>, <<NotStocked>>,
     <<Cell(0), Cell(4)>>}

\* two variants on both sides: A is AB-1G or AB, B a sibling of another
\* size, an item of another plant, an item without a size, or A itself
\* at a second location; the ERP quantities are those of an oversold item,
\* none, and some
PairInputs ==
    {[odoo_quants      |-> <<Quant(1, DisplayName(A[1]), <<"F", "1">>, qA),
                             Quant(B[1], DisplayName(B[2]), B[3], qB)>>,
      inventory_export |->
          Table(ExportRowsOf(A[1], A[2], hA) \o ExportRowsOf(B[2], B[4], hB)),
      shopifyproducts  |-> NoTable] :
        A  \in {<<c_AB1G, <<"1", "G">> >>, <<c_AB, <<>> >>},
        B  \in {<<2, c_AB3G, <<"F", "1">>, <<"3", "G">> >>,
                <<3, <<"C", "D", "-", "3", "G">>, <<"F", "1">>,
                  <<"3", "G">> >>,
                <<4, <<"C", "D">>, <<"F", "1">>, <<>> >>,
                <<1, c_AB1G, <<"F", "2">>, <<"1", "G">> >>},
        qA \in {-2, 0, 3}, qB \in {-2, 0, 3},
        hA \in {<<Cell(-2)>>, <<Cell(0)>>, <<Cell(4)>>},
        hB \in ShopCells}

\* one ERP item X = AB-1G and the storefront products: X itself, absent or
\* with a quantity, and one other product S
ProximityInputs ==
    {[odoo_quants      |-> <<Quant(1, DisplayName(c_AB1G), <<"F", "1">>,
                                   qX)>>,
      inventory_export |-> inv,
      shopifyproducts  |-> Table(s1 \o <<ProductRow(S, <<"3", "G">>, Num(qS),
                                                    t_active)>>)] :
        qX  \in {0, 3},
        inv \in {NoTable, Table(<<>>),
                 Table(ExportRowsOf(c_AB1G, <<"1", "G">>, <<Cell(0)>>))},
        s1  \in {<<>>} \cup
                {<<ProductRow(c_AB1G, <<"1", "G">>, q, status)>> :
                    q \in {NullNum, Num(0), Num(2)},
                    status \in {t_active, <<"d", "r", "a", "f", "t">>}},
        S   \in {c_AB3G, <<"a", "b", "-", "3", "G">>, c_ABC3G,
                 <<"C", "D", "-", "3", "G">>},
        qS  \in {0, 4, 8, 9}}

\* two ERP items of any two display names, and no storefront data: names
\* with a code of one, two or three parts, with an empty part, with a
\* padded code, and without a code
CodeInputs ==
    LET names == {DisplayName(c_AB1G), DisplayName(c_AB3G),
                  DisplayName(c_ABC3G), DisplayName(c_AB),
                  DisplayName(<<"C", "D", "-", "3", "G">>),
                  DisplayName(<<"C", "D">>), DisplayName(<<"-">>),
                  DisplayName(<<"A", "B", "-">>),
                  DisplayName(<<"-", "1", "G">>),
                  DisplayName(<<" ">> \o c_AB1G \o <<" ">>),
                  <<"A", "b", "e", "l", "i", "a">>}
    IN  {[odoo_quants      |-> <<Quant(1, a, <<"F", "1">>, 3),
                                 Quant(2, b, <<"F", "1">>, 3)>>,
          inventory_export |-> NoTable,
          shopifyproducts  |-> NoTable] :
            a \in names, b \in names}

\* the inputs of the stock programs; the last has no stock.quant record
StockInputs ==
    PairInputs \cup ProximityInputs \cup CodeInputs
        \cup {[odoo_quants |-> <<>>, inventory_export |-> Table(<<>>),
               shopifyproducts |-> NoTable]}

InitStock ==
    /\ shopify_orders = NoTable
    /\ odoo_orders = NoTable
    /\ legacy_lookup = NoTable
    /\ shopify_orders_basesku = NoTable
    /\ excel_report = NoRowSet
    /\ order_comparison = NoRowSet
    /\ prog = "none"
    /\ pc = "idle"
    /\ shopify_df = <<>>
    /\ odoo_df = <<>>
    /\ comparison_df = {}
    /\ last_exit = NoExit
    /\ \E input \in StockInputs :
          /\ odoo_quants = input.odoo_quants
          /\ inventory_export = input.inventory_export
          /\ shopifyproducts = input.shopifyproducts
    /\ shopify_inventory = NoRowSet
    /\ stock_cross_reference_extended = NoRowSet
    /\ sku_mismatches = NoRowSet
    /\ odoostock = NoTable
    /\ odoo_total_stock = NoRowSet
    /\ loc_count = NoRowSet
    /\ stock_cross_reference = NoRowSet
    /\ world = [for |-> "none"]
    /\ trace = <<>>
    /\ ret = [kind |-> "none"]
    /\ out = [file |-> "none"]

\* get_odoo_stock_current.py, run once.  With --report-only nothing is
\* fetched and no query is executed.  Otherwise the quants are fetched,
\* which fails when Odoo cannot be reached and when there is no quant (the
\* empty frame has no column 'product_id'); odoostock is replaced; the
\* tables odoo_total_stock and loc_count are rebuilt; and, when
\* shopifyproducts exists, stock_cross_reference is dropped and rebuilt,
\* which fails after the drop when shopify_inventory does not exist.
get_odoo_stock_current ==
    /\ prog = "none"
    /\ UNCHANGED <<shopify_orders, odoo_orders, legacy_lookup,
                   shopify_orders_basesku, excel_report, order_comparison,
                   odoo_quants, inventory_export, shopifyproducts,
                   shopify_inventory, stock_cross_reference_extended,
                   sku_mismatches, world, trace, ret, out>>
    /\ \E report_only \in BOOLEAN, reachable \in BOOLEAN :
          IF report_only
          THEN /\ UNCHANGED <<odoostock, odoo_total_stock, loc_count,
                              stock_cross_reference>>
               /\ Exit("get_odoo_stock_current",
                       IF odoostock.exists THEN 0 ELSE 1)
          ELSE IF ~reachable \/ odoo_quants = <<>>
          THEN /\ UNCHANGED <<odoostock, odoo_total_stock, loc_count,
                              stock_cross_reference>>
               /\ Exit("get_odoo_stock_current", 1)
          ELSE LET stock  == OdooStockRows(odoo_quants)
                   total  == OdooTotalStock(stock)
                   counts == LocCount(total)
               IN  /\ odoostock' = Table(stock)
                   /\ odoo_total_stock' = Table(total)
                   /\ loc_count' = Table(counts)
                   /\ IF ~shopifyproducts.exists
                      THEN /\ UNCHANGED stock_cross_reference
                           /\ Exit("get_odoo_stock_current", 0)
                      ELSE IF ~shopify_inventory.exists
                      THEN /\ stock_cross_reference' = NoRowSet
                           /\ Exit("get_odoo_stock_current", 1)
                      ELSE /\ stock_cross_reference' =
                                 Table(StockCrossReference(
                                     total, counts, stock,
                                     shopifyproducts.rows,
                                     shopify_inventory.rows))
                           /\ Exit("get_odoo_stock_current", 0)

\* import_shopify_inventory.py, run once: without an export file nothing
\* is done; otherwise shopify_inventory is replaced and, when odoostock
\* exists, the extended cross-reference is exported and the SKU mismatch
\* query is run.  sku_mismatches is the result of that query.
import_shopify_inventory ==
    /\ prog = "none"
    /\ UNCHANGED <<shopify_orders, odoo_orders, legacy_lookup,
                   shopify_orders_basesku, excel_report, order_comparison,
                   odoo_quants, inventory_export, shopifyproducts,
                   odoostock, odoo_total_stock, loc_count,
                   stock_cross_reference, world, trace, ret, out>>
    /\ IF ~inventory_export.exists
       THEN UNCHANGED <<shopify_inventory, stock_cross_reference_extended,
                        sku_mismatches>>
       ELSE LET inventory == InventoryBySku(inventory_export.rows)
            IN  /\ shopify_inventory' = Table(inventory)
                /\ IF ~odoostock.exists
                   THEN UNCHANGED <<stock_cross_reference_extended,
                                    sku_mismatches>>
                   ELSE /\ stock_cross_reference_extended' =
                              Table(StockCrossReferenceExtended(
                                  odoostock.rows, inventory))
                        /\ sku_mismatches' =
                              Table(SkuMismatches(odoostock.rows, inventory))
    /\ Exit("import_shopify_inventory", 0)

NextStock ==
    \/ get_odoo_stock_current
    \/ import_shopify_inventory

SpecStock == InitStock /\ [][NextStock]_vars

(***************************************************************************)
(* The entry points, and the functions that talk to the servers            *)
(*                                                                         *)
(* world names the program that is given control (world.for) with its      *)
(* arguments and with the files and records it finds; it does not change.  *)
(* A program that runs step by step keeps in trace the calls it has made.  *)
(***************************************************************************)

\* Order_Flow/main.py with the steps run whatever the earlier ones returned
order_flow_main_NoAbort ==
    LET scripts == <<"update_shopify_orders.py", "refresh_odoo_orders.py",
                     "create_excel_report.py", "compare_orders.py">>
        done == IF prog = "none" THEN <<>> ELSE trace
        n == Len(done) + 1
    IN  /\ world.for = "order_flow_main"
        /\ prog \in {"none", "order_flow_main"}
        /\ \E ok \in BOOLEAN :
              /\ trace' = Append(done,
                     [script |-> scripts[n],
                      args   |-> IF n > 2 THEN "" ELSE
                                 IF world.all THEN "--all" ELSE "--days",
                      ok     |-> ok])
              /\ IF FALSE
                 THEN /\ ret' = [kind |-> "log", value |-> "Aborting."]
                      /\ Exit("order_flow_main", 1)
                 ELSE IF n = 4
                 THEN /\ ret' = [kind |-> "log",
                                 value |-> "COMPLETED SUCCESSFULLY"]
                      /\ Exit("order_flow_main", IF \A i \in 1..3 : trace'[i].ok THEN 0 ELSE 1)
                 ELSE /\ prog' = "order_flow_main"
                      /\ pc' = "run_script"
                      /\ UNCHANGED <<ret, shopify_df, odoo_df, comparison_df,
                                     last_exit>>
        /\ UNCHANGED <<shopify_orders, odoo_orders, legacy_lookup,
                       shopify_orders_basesku, excel_report, order_comparison,
                       stock_vars, world, out>>

\* Order_Flow/main.py with the status of compare_orders.py in the exit status
order_flow_main_CompareCounts ==
    LET scripts == <<"update_shopify_orders.py", "refresh_odoo_orders.py",
                     "create_excel_report.py", "compare_orders.py">>
        done == IF prog = "none" THEN <<>> ELSE trace
        n == Len(done) + 1
    IN  /\ world.for = "order_flow_main"
        /\ prog \in {"none", "order_flow_main"}
        /\ \E ok \in BOOLEAN :
              /\ trace' = Append(done,
                     [script |-> scripts[n],
                      args   |-> IF n > 2 THEN "" ELSE
                                 IF world.all THEN "--all" ELSE "--days",
                      ok     |-> ok])
              /\ IF ~ok /\ n <= 3
                 THEN /\ ret' = [kind |-> "log", value |-> "Aborting."]
                      /\ Exit("order_flow_main", 1)
                 ELSE IF n = 4
                 THEN /\ ret' = [kind |-> "log",
                                 value |-> "COMPLETED SUCCESSFULLY"]
                      /\ Exit("order_flow_main", IF ok THEN 0 ELSE 1)
                 ELSE /\ prog' = "order_flow_main"
                      /\ pc' = "run_script"
                      /\ UNCHANGED <<ret, shopify_df, odoo_df, comparison_df,
                                     last_exit>>
        /\ UNCHANGED <<shopify_orders, odoo_orders, legacy_lookup,
                       shopify_orders_basesku, excel_report, order_comparison,
                       stock_vars, world, out>>

\* Order_Flow/main.py, main, one call of run_script at a step: the script
\* runs as a subprocess to its end and run_script returns whether it ended
\* with status 0.  After a failure of one of the first three scripts main
\* logs the abort and leaves with sys.exit(1); the result of the fourth is
\* not looked at.
order_flow_main ==
    LET scripts == <<"update_shopify_orders.py", "refresh_odoo_orders.py",
                     "create_excel_report.py", "compare_orders.py">>
        done == IF prog = "none" THEN <<>> ELSE trace
        n == Len(done) + 1
    IN  /\ world.for = "order_flow_main"
        /\ prog \in {"none", "order_flow_main"}
        /\ \E ok \in BOOLEAN :
              /\ trace' = Append(done,
                     [script |-> scripts[n],
                      args   |-> IF n > 2 THEN "" ELSE
                                 IF world.all THEN "--all" ELSE "--days",
                      ok     |-> ok])
              /\ IF ~ok /\ n <= 3
                 THEN /\ ret' = [kind |-> "log", value |-> "Aborting."]
                      /\ Exit("order_flow_main", 1)
                 ELSE IF n = 4
                 THEN /\ ret' = [kind |-> "log",
                                 value |-> "COMPLETED SUCCESSFULLY"]
                      /\ Exit("order_flow_main", 0)
                 ELSE /\ prog' = "order_flow_main"
                      /\ pc' = "run_script"
                      /\ UNCHANGED <<ret, shopify_df, odoo_df, comparison_df,
                                     last_exit>>
        /\ UNCHANGED <<shopify_orders, odoo_orders, legacy_lookup,
                       shopify_orders_basesku, excel_report, order_comparison,
                       stock_vars, world, out>>

\* Shopify_Odoo_Stock_Cross_Ref/main.py, main, one call of run_command at
\* a step: update_shopify_data runs get_shopify_data_current.py and
\* update_odoo_data runs get_odoo_stock_current.py, both without
\* arguments; the command line of main itself is never read.  The exit
\* status is 0 when both commands ended with status 0.
sync_inventory_main ==
    LET done == IF prog = "none" THEN <<>> ELSE trace
    IN  /\ world.for = "sync_inventory_main"
        /\ prog \in {"none", "sync_inventory_main"}
        /\ \E ok \in BOOLEAN :
              IF done = <<>>
              THEN /\ trace' = <<[command |-> "get_shopify_data_current.py",
                                  args |-> "", ok |-> ok]>>
                   /\ prog' = "sync_inventory_main"
                   /\ pc' = "run_command"
                   /\ UNCHANGED <<shopify_df, odoo_df, comparison_df,
                                  last_exit>>
              ELSE /\ trace' = Append(done,
                                     [command |-> "get_odoo_stock_current.py",
                                      args |-> "", ok |-> ok])
                   /\ Exit("sync_inventory_main",
                           IF done[1].ok /\ ok THEN 0 ELSE 1)
        /\ UNCHANGED <<shopify_orders, odoo_orders, legacy_lookup,
                       shopify_orders_basesku, excel_report, order_comparison,
                       stock_vars, world, ret, out>>

\* update_shopify_orders.py, fetch_shopify_orders, one request at a step.
\* The request can fail to connect, come back with an HTTP error status or
\* with a body that is no JSON, or bring a page: its orders, and whether a
\* Link header with rel="next" follows (the server has world.pages pages).
\* The handler of RequestException reads the local variable response,
\* which is unbound when the first requests.get raised: the
\* UnboundLocalError leaves the function.  An order is its number; while
\* the function runs, ret.value is its list orders.
fetch_shopify_orders ==
    LET done == IF prog = "none" THEN <<>> ELSE trace
        orders == IF prog = "none" THEN <<>> ELSE ret.value
        page_count == Len(done) + 1
        Request(outcome, page, next) ==
            Append(done, [page |-> page_count, outcome |-> outcome,
                          orders |-> page, next |-> next])
        Leave(kind, value) ==
            /\ ret' = [kind |-> kind, value |-> value]
            /\ Exit("fetch_shopify_orders", 0)
    IN  /\ world.for = "fetch_shopify_orders"
        /\ prog \in {"none", "fetch_shopify_orders"}
        /\ \/ /\ trace' = Request("connection error", <<>>, FALSE)
              /\ IF done = <<>>
                 THEN Leave("raise UnboundLocalError", <<>>)
                 ELSE Leave("return None", <<>>)
           \/ /\ trace' \in {Request("http error", <<>>, FALSE),
                              Request("no json", <<>>, FALSE)}
              /\ Leave("return None", <<>>)
           \/ /\ trace' = Request("ok", <<>>, FALSE)
              /\ Leave("return", orders)
           \/ \E page \in {<<page_count>>, <<page_count, page_count + 10>>},
                 next \in {page_count < world.pages} :
                 /\ trace' = Request("ok", page, next)
                 /\ IF next
                    THEN /\ ret' = [kind |-> "running",
                                    value |-> orders \o page]
                         /\ prog' = "fetch_shopify_orders"
                         /\ pc' = "while url"
                         /\ UNCHANGED <<shopify_df, odoo_df, comparison_df,
                                        last_exit>>
                    ELSE Leave("return", orders \o page)
        /\ UNCHANGED <<shopify_orders, odoo_orders, legacy_lookup,
                       shopify_orders_basesku, excel_report, order_comparison,
                       stock_vars, world, out>>

\* shopify_api_inventory_extractor.py, fetch_inventory_page with the
\* request limit max_retries, one attempt at a step: the request and what
\* follows it.  An attempt fails when the request cannot connect, when the
\* status is an HTTP error, when the body is no JSON, when the body carries
\* 'errors', and when it has no data.products; every failure but the last
\* allowed one is followed by a sleep of 2 ** attempt seconds, and the last
\* one is raised again.  The page returned is the one the server sent.
fetch_inventory_page_SleepsAlways ==
    LET max_retries == 3
        done == IF prog = "none" THEN <<>> ELSE trace
        attempt == Cardinality({i \in DOMAIN done : done[i].call = "post"})
        Post(outcome) ==
            [call |-> "post", attempt |-> attempt, outcome |-> outcome,
             seconds |-> 0]
        Sleep(seconds) ==
            [call |-> "sleep", attempt |-> attempt, outcome |-> "",
             seconds |-> seconds]
    IN  /\ world.for = "fetch_inventory_page"
        /\ prog \in {"none", "fetch_inventory_page"}
        /\ attempt < max_retries
        /\ \/ /\ trace' = Append(done, Post("ok"))
              /\ ret' = [kind |-> "return",
                         value |-> [products |-> world.products,
                                    has_next_page |-> world.has_next_page,
                                    end_cursor |-> world.end_cursor]]
              /\ Exit("fetch_inventory_page", 0)
           \/ \E outcome \in {"connection error", "http error", "no json",
                              "GraphQL errors", "no data"} :
                 IF attempt = max_retries - 1
                 THEN /\ trace' = done \o <<Post(outcome), Sleep(2 ^ attempt)>>
                      /\ ret' = [kind |-> "raise", value |-> outcome]
                      /\ Exit("fetch_inventory_page", 1)
                 ELSE /\ trace' = done \o <<Post(outcome), Sleep(2 ^ attempt)>>
                      /\ prog' = "fetch_inventory_page"
                      /\ pc' = "for attempt"
                      /\ UNCHANGED <<ret, shopify_df, odoo_df, comparison_df,
                                     last_exit>>
        /\ UNCHANGED <<shopify_orders, odoo_orders, legacy_lookup,
                       shopify_orders_basesku, excel_report, order_comparison,
                       stock_vars, world, out>>

fetch_inventory_page ==
    LET max_retries == 3
        done == IF prog = "none" THEN <<>> ELSE trace
        attempt == Cardinality({i \in DOMAIN done : done[i].call = "post"})
        Post(outcome) ==
            [call |-> "post", attempt |-> attempt, outcome |-> outcome,
             seconds |-> 0]
        Sleep(seconds) ==
            [call |-> "sleep", attempt |-> attempt, outcome |-> "",
             seconds |-> seconds]
    IN  /\ world.for = "fetch_inventory_page"
        /\ prog \in {"none", "fetch_inventory_page"}
        /\ attempt < max_retries
        /\ \/ /\ trace' = Append(done, Post("ok"))
              /\ ret' = [kind |-> "return",
                         value |-> [products |-> world.products,
                                    has_next_page |-> world.has_next_page,
                                    end_cursor |-> world.end_cursor]]
              /\ Exit("fetch_inventory_page", 0)
           \/ \E outcome \in {"connection error", "http error", "no json",
                              "GraphQL errors", "no data"} :
                 IF attempt = max_retries - 1
                 THEN /\ trace' = Append(done, Post(outcome))
                      /\ ret' = [kind |-> "raise", value |-> outcome]
                      /\ Exit("fetch_inventory_page", 1)
                 ELSE /\ trace' = done \o <<Post(outcome), Sleep(2 ^ attempt)>>
                      /\ prog' = "fetch_inventory_page"
                      /\ pc' = "for attempt"
                      /\ UNCHANGED <<ret, shopify_df, odoo_df, comparison_df,
                                     last_exit>>
        /\ UNCHANGED <<shopify_orders, odoo_orders, legacy_lookup,
                       shopify_orders_basesku, excel_report, order_comparison,
                       stock_vars, world, out>>

\* get_odoo_stock_current.py, authenticate_with_retry, one turn of the
\* loop at a step: the call and what follows it.  The call returns a value
\* (the uid, or False for credentials Odoo refuses), raises a Fault whose
\* faultString contains "KeyError: 'res.users'", raises another Fault, or
\* raises another exception.  After the loop the function raises its own
\* exception; with retries = 0 it does so at once.
authenticate_with_retry_RetriesAnyFault ==
    LET done == IF prog = "none" THEN <<>> ELSE trace
        i == Cardinality({n \in DOMAIN done : done[n].call = "authenticate"})
        Call(outcome) ==
            [call |-> "authenticate", outcome |-> outcome, seconds |-> 0]
        Sleep == [call |-> "sleep", outcome |-> "", seconds |-> world.delay]
        Raise(what) ==
            /\ ret' = [kind |-> "raise", value |-> what]
            /\ Exit("authenticate_with_retry", 1)
    IN  /\ world.for = "authenticate_with_retry"
        /\ prog \in {"none", "authenticate_with_retry"}
        /\ IF i >= world.retries
           THEN /\ trace' = done
                /\ Raise("Could not authenticate with Odoo after several retries.")
           ELSE \/ \E uid \in {"2", "False"} :
                      /\ trace' = Append(done, Call("returned"))
                      /\ ret' = [kind |-> "return", value |-> uid]
                      /\ Exit("authenticate_with_retry", 0)
                \/ \E outcome \in {"Fault KeyError: 'res.users'",
                                   "Fault Access Denied",
                                   "ConnectionRefusedError"} :
                      /\ trace' = done \o <<Call(outcome), Sleep>>
                      /\ IF i + 1 = world.retries
                         THEN Raise("Could not authenticate with Odoo after several retries.")
                         ELSE /\ prog' = "authenticate_with_retry"
                              /\ pc' = "for i"
                              /\ UNCHANGED <<ret, shopify_df, odoo_df,
                                             comparison_df, last_exit>>
        /\ UNCHANGED <<shopify_orders, odoo_orders, legacy_lookup,
                       shopify_orders_basesku, excel_report, order_comparison,
                       stock_vars, world, out>>

authenticate_with_retry ==
    LET done == IF prog = "none" THEN <<>> ELSE trace
        i == Cardinality({n \in DOMAIN done : done[n].call = "authenticate"})
        Call(outcome) ==
            [call |-> "authenticate", outcome |-> outcome, seconds |-> 0]
        Sleep == [call |-> "sleep", outcome |-> "", seconds |-> world.delay]
        Raise(what) ==
            /\ ret' = [kind |-> "raise", value |-> what]
            /\ Exit("authenticate_with_retry", 1)
    IN  /\ world.for = "authenticate_with_retry"
        /\ prog \in {"none", "authenticate_with_retry"}
        /\ IF i >= world.retries
           THEN /\ trace' = done
                /\ Raise("Could not authenticate with Odoo after several retries.")
           ELSE \/ \E uid \in {"2", "False"} :
                      /\ trace' = Append(done, Call("returned"))
                      /\ ret' = [kind |-> "return", value |-> uid]
                      /\ Exit("authenticate_with_retry", 0)
                \/ /\ trace' = Append(done, Call("Fault Access Denied"))
                   /\ Raise("Fault Access Denied")
                \/ \E outcome \in {"Fault KeyError: 'res.users'",
                                   "ConnectionRefusedError"} :
                      /\ trace' = done \o <<Call(outcome), Sleep>>
                      /\ IF i + 1 = world.retries
                         THEN Raise("Could not authenticate with Odoo after several retries.")
                         ELSE /\ prog' = "authenticate_with_retry"
                              /\ pc' = "for i"
                              /\ UNCHANGED <<ret, shopify_df, odoo_df,
                                             comparison_df, last_exit>>
        /\ UNCHANGED <<shopify_orders, odoo_orders, legacy_lookup,
                       shopify_orders_basesku, excel_report, order_comparison,
                       stock_vars, world, out>>

\* process_shopify_exports.py, the whole script.  authenticate is called
\* outside any try: when it raises the script dies before it writes
\* anything.  A query of res.partner or of sale.order that raises leaves an
\* empty frame, and so does one that finds nothing; with an empty frame the
\* check against Odoo is skipped.  An export that cannot be read ends the
\* script with exit(1).  out.orders is 02_orders_upload.csv, each row with
\* the export line it was made of, and out.contacts the names of
\* 01_contacts_upload.csv.
process_shopify_exports ==
    \E authenticated, partners_read, orders_read \in BOOLEAN :
        LET df_contacts == IF partners_read THEN world.contacts ELSE {}
            df_orders == IF orders_read THEN world.sale_orders ELSE {}
            df_in == [i \in DOMAIN world.export |->
                         [line |-> i,
                          Name |-> world.export[i].Name,
                          Billing_Name |-> world.export[i].Billing_Name,
                          sku |-> world.export[i].sku]]
            with_sku == SelectSeq(df_in, LAMBDA r : r.sku # "")
            df == IF df_orders # {}
                  THEN SelectSeq(with_sku, LAMBDA r : r.Name \notin df_orders)
                  ELSE with_sku
            df_final ==
                [j \in DOMAIN df |->
                    LET is_first_line ==
                            \A e \in 1..(j - 1) : df[e].Name # df[j].Name
                    IN  [line |-> df[j].line,
                         Order_Reference |->
                             IF is_first_line THEN df[j].Name ELSE "",
                         Customer |-> IF is_first_line THEN "Shopify" ELSE "",
                         Product |-> df[j].sku]]
            named == SelectSeq(df_in, LAMBDA r : r.Billing_Name # "")
            unique == SelectSeq(named, LAMBDA r :
                          \A e \in DOMAIN df_in :
                              (e < r.line /\ df_in[e].Billing_Name # "")
                                  => df_in[e].Billing_Name # r.Billing_Name)
            new == IF df_contacts # {}
                   THEN SelectSeq(unique,
                                  LAMBDA r : r.Billing_Name \notin df_contacts)
                   ELSE unique
            Called(queries) ==
                <<[call |-> "authenticate", ok |-> authenticated]>> \o queries
        IN  /\ world.for = "process_shopify_exports"
            /\ prog = "none"
            /\ IF ~authenticated
               THEN /\ trace' = Called(<<>>)
                    /\ ret' = [kind |-> "raise", value |-> "authenticate"]
                    /\ out' = out
                    /\ Exit("process_shopify_exports", 1)
               ELSE /\ trace' = Called(<<[call |-> "res.partner",
                                          ok |-> partners_read],
                                         [call |-> "sale.order",
                                          ok |-> orders_read]>>)
                    /\ IF ~world.readable
                       THEN /\ ret' = [kind |-> "exit", value |-> "1"]
                            /\ out' = out
                            /\ Exit("process_shopify_exports", 1)
                       ELSE /\ ret' = [kind |-> "exit", value |-> "0"]
                            /\ out' = [file |-> "upload",
                                       orders |-> df_final,
                                       contacts |->
                                           [j \in DOMAIN new |->
                                               new[j].Billing_Name]]
                            /\ Exit("process_shopify_exports", 0)
            /\ UNCHANGED <<shopify_orders, odoo_orders, legacy_lookup,
                           shopify_orders_basesku, excel_report,
                           order_comparison, stock_vars, world>>

\* create_materials_db.py.  A database file is the set of its tables, each
\* a name with what it holds; excel is legacy_lookup.xlsx: "missing",
\* "unreadable" or "rows".  ensure_legacy_lookup_table gives the database
\* it leaves: with the sheet read, a database without the table
\* legacy_lookup gets one made of the sheet, and one that has the table is
\* left alone.
ensure_legacy_lookup_table_Replaces(db, excel) ==
    IF excel # "rows"
    THEN db
    ELSE [exists |-> TRUE,
          tables |-> {t \in db.tables : t.name # "legacy_lookup"}
                     \cup {[name |-> "legacy_lookup",
                            holds |-> "legacy_lookup.xlsx"]}]

ensure_legacy_lookup_table(db, excel) ==
    IF excel # "rows"
    THEN db
    ELSE IF \E t \in db.tables : t.name = "legacy_lookup"
         THEN db
         ELSE [exists |-> TRUE,
               tables |-> db.tables
                          \cup {[name |-> "legacy_lookup",
                                 holds |-> "legacy_lookup.xlsx"]}]

\* main: out.db is materials.db once main has run, and world.materials is
\* the file main found at its first run.  trace says what main did.
create_materials_db ==
    LET materials_db == IF out.file = "none" THEN world.materials ELSE out.db
        how == IF materials_db.exists THEN "already exists"
               ELSE IF world.order_sync.exists THEN "copied order_sync.db"
               ELSE IF world.woodlanders.exists THEN "copied woodlanders.db"
               ELSE "created empty"
        made == CASE how = "already exists" -> materials_db
                  [] how = "copied order_sync.db" -> world.order_sync
                  [] how = "copied woodlanders.db" -> world.woodlanders
                  [] OTHER -> [exists |-> TRUE, tables |-> {}]
    IN  /\ world.for = "create_materials_db"
        /\ prog = "none"
        /\ trace' = <<[call |-> how]>>
        /\ ret' = [kind |-> "exit", value |-> "0"]
        /\ out' = [file |-> "materials.db",
                   db |-> ensure_legacy_lookup_table(made, world.excel)]
        /\ Exit("create_materials_db", 0)
        /\ UNCHANGED <<shopify_orders, odoo_orders, legacy_lookup,
                       shopify_orders_basesku, excel_report, order_comparison,
                       stock_vars, world>>

\* the worlds of the programs
InitOps ==
    /\ shopify_orders = NoTable
    /\ odoo_orders = NoTable
    /\ legacy_lookup = NoTable
    /\ shopify_orders_basesku = NoTable
    /\ excel_report = NoRowSet
    /\ order_comparison = NoRowSet
    /\ prog = "none"
    /\ pc = "idle"
    /\ shopify_df = <<>>
    /\ odoo_df = <<>>
    /\ comparison_df = {}
    /\ last_exit = NoExit
    /\ NoStock
    /\ world \in
          {[for |-> "order_flow_main", all |-> a] : a \in BOOLEAN}
          \cup {[for |-> "sync_inventory_main", option |-> o] :
                   o \in {"--all", "--shopify", "--odoo", "--report"}}
          \cup {[for |-> "fetch_shopify_orders", pages |-> n] :
                   n \in 1..3}
          \cup {[for |-> "fetch_inventory_page", products |-> <<n>>,
                 has_next_page |-> n < 2, end_cursor |-> n] : n \in 1..2}
          \cup {[for |-> "authenticate_with_retry", retries |-> n,
                 delay |-> 6] : n \in {0, 1, 2, 3, 10}}
          \cup {[for |-> "process_shopify_exports", export |-> e,
                 readable |-> r, sale_orders |-> s, contacts |-> c] :
                   e \in {<<>>,
                          <<[Name |-> "#1001", Billing_Name |-> "Ann",
                             sku |-> "A"],
                            [Name |-> "#1001", Billing_Name |-> "Ann",
                             sku |-> "B"],
                            [Name |-> "#1002", Billing_Name |-> "Bob",
                             sku |-> "A"]>>,
                          <<[Name |-> "#1001", Billing_Name |-> "Ann",
                             sku |-> ""],
                            [Name |-> "#1002", Billing_Name |-> "Bob",
                             sku |-> "C"]>>,
                          <<[Name |-> "#1002", Billing_Name |-> "Bob",
                             sku |-> "A"],
                            [Name |-> "#1003", Billing_Name |-> "",
                             sku |-> "B"],
                            [Name |-> "#1002", Billing_Name |-> "Bob",
                             sku |-> "C"]>>},
                   r \in BOOLEAN,
                   s \in {{}, {"#1001"}, {"#1001", "#1002"}, {"S00001"}},
                   c \in {{}, {"Ann"}}}
          \cup {[for |-> "create_materials_db", materials |-> m,
                 order_sync |-> o, woodlanders |-> w, excel |-> x] :
                   m \in {[exists |-> FALSE, tables |-> {}],
                          [exists |-> TRUE, tables |-> {}],
                          [exists |-> TRUE,
                           tables |-> {[name |-> "materials",
                                        holds |-> "materials.db"]}],
                          [exists |-> TRUE,
                           tables |-> {[name |-> "materials",
                                        holds |-> "materials.db"],
                                       [name |-> "legacy_lookup",
                                        holds |-> "materials.db"]}]},
                   o \in {[exists |-> FALSE, tables |-> {}],
                          [exists |-> TRUE,
                           tables |-> {[name |-> "shopify_orders",
                                        holds |-> "order_sync.db"]}],
                          [exists |-> TRUE,
                           tables |-> {[name |-> "shopify_orders",
                                        holds |-> "order_sync.db"],
                                       [name |-> "legacy_lookup",
                                        holds |-> "order_sync.db"]}]},
                   w \in {[exists |-> FALSE, tables |-> {}],
                          [exists |-> TRUE,
                           tables |-> {[name |-> "odoostock",
                                        holds |-> "woodlanders.db"]}]},
                   x \in {"missing", "unreadable", "rows"}}
    /\ trace = <<>>
    /\ ret = [kind |-> "none"]
    /\ out = [file |-> "none"]

NextOps ==
    \/ order_flow_main
    \/ sync_inventory_main
    \/ fetch_shopify_orders
    \/ fetch_inventory_page
    \/ authenticate_with_retry
    \/ process_shopify_exports
    \/ create_materials_db

SpecOps == InitOps /\ [][NextOps]_vars

(***************************************************************************)
(* Properties of the comparison                                            *)
(***************************************************************************)

\* compare_orders has returned and the run has not ended: comparison_df is
\* the comparison of the current shopify_orders and odoo_orders
Compared == prog = "compare_orders" /\ pc \in {"save", "report"}

ShopifyLines == 1..Len(shopify_orders.rows)

OdooLines == 1..Len(odoo_orders.rows)

\* the join key of a staged line, as compare_orders computes it
ShopifyKey(i) ==
    <<StrLower(shopify_orders.rows[i].Name),
      StrLower(shopify_orders.rows[i].Lineitem_sku)>>

OdooKey(j) ==
    <<StrLower(odoo_orders.rows[j].Shopify_Order_Number),
      StrLower(odoo_orders.rows[j].Product_Default_Code)>>

\* the joined rows made of storefront line i, resp. of ERP line j
RowsOfShopify(i) == {row \in comparison_df : row.li = i}

RowsOfOdoo(j) == {row \in comparison_df : row.ri = j}

\* the joined row carries the columns of storefront line i / ERP line j
CarriesShopify(row, i) ==
    /\ row.shopify_order_number = shopify_orders.rows[i].Name
    /\ row.shopify_sku = shopify_orders.rows[i].Lineitem_sku

CarriesOdoo(row, j) ==
    /\ row.odoo_shopify_order_number = odoo_orders.rows[j].Shopify_Order_Number
    /\ row.odoo_sku = odoo_orders.rows[j].Product_Default_Code
    /\ row.odoo_order_name = odoo_orders.rows[j].Odoo_Name

SyncStatuses ==
    {"Missing in Shopify", "Missing in Odoo", "Quantity mismatch",
     "Price mismatch", "Synced"}

\* C1: every joined row has exactly one of the five statuses, the first
\* that applies in the order: not on the storefront, not on the ERP,
\* quantities differ, prices differ, synced.
C1_StatusPriority ==
    \A row \in comparison_df :
        /\ row.sync_status \in SyncStatuses
        /\ (row.sync_status = "Missing in Shopify") <=> ~row.in_shopify
        /\ (row.sync_status = "Missing in Odoo") <=>
               (row.in_shopify /\ ~row.in_odoo)
        /\ (row.sync_status = "Quantity mismatch") <=>
               (row.in_shopify /\ row.in_odoo /\ ~row.quantity_match)
        /\ (row.sync_status = "Price mismatch") <=>
               (row.in_shopify /\ row.in_odoo /\ row.quantity_match
                /\ ~row.price_match)
        /\ (row.sync_status = "Synced") <=>
               (row.in_shopify /\ row.in_odoo /\ row.quantity_match
                /\ row.price_match)

\* C1 witness: a row missing on the ERP whose quantities also differ, and
\* it is classified 'Missing in Odoo'
C1_Witness ==
    /\ Compared
    /\ \E row \in comparison_df :
          /\ row.in_shopify /\ ~row.in_odoo /\ ~row.quantity_match
          /\ row.sync_status = "Missing in Odoo"

\* C2: no line is dropped: every staged line of either side is carried by
\* at least one joined row (so every key of either side has a row).
C2_Totality ==
    Compared =>
        /\ \A i \in ShopifyLines :
              \E row \in RowsOfShopify(i) : CarriesShopify(row, i)
        /\ \A j \in OdooLines :
              \E row \in RowsOfOdoo(j) : CarriesOdoo(row, j)

\* C2 witness: a comparison with a line only the storefront has, a line
\* only the ERP has and a pair
C2_Witness ==
    /\ Compared
    /\ \E row \in comparison_df : row.li # 0 /\ row.ri = 0
    /\ \E row \in comparison_df : row.li = 0 /\ row.ri # 0
    /\ \E row \in comparison_df : row.li # 0 /\ row.ri # 0

\* C3: every ERP line whose key is on no storefront line, an order created
\* in the ERP by hand included, gets a row with in_shopify false, in_odoo
\* true and the status 'Missing in Shopify'.
C3_ErpOnly ==
    Compared =>
        \A j \in OdooLines :
            (\A i \in ShopifyLines : ShopifyKey(i) # OdooKey(j)) =>
                /\ RowsOfOdoo(j) # {}
                /\ \A row \in RowsOfOdoo(j) :
                      /\ ~row.in_shopify
                      /\ row.in_odoo
                      /\ row.sync_status = "Missing in Shopify"

\* C4: every storefront line whose key is on no ERP line gets a row with
\* in_shopify true, in_odoo false and the status 'Missing in Odoo'.
C4_StorefrontOnly ==
    Compared =>
        \A i \in ShopifyLines :
            (\A j \in OdooLines : ShopifyKey(i) # OdooKey(j)) =>
                /\ RowsOfShopify(i) # {}
                /\ \A row \in RowsOfShopify(i) :
                      /\ row.in_shopify
                      /\ ~row.in_odoo
                      /\ row.sync_status = "Missing in Odoo"

\* C4 witness: a storefront line without SKU that no ERP line matches
C4_Witness ==
    /\ Compared
    /\ \E i \in ShopifyLines :
          /\ shopify_orders.rows[i].Lineitem_sku = NULL
          /\ \A j \in OdooLines : ShopifyKey(i) # OdooKey(j)
          /\ \E row \in RowsOfShopify(i) : row.sync_status = "Missing in Odoo"

\* the keys of the staged lines of a side
ShopifyKeys == {ShopifyKey(i) : i \in ShopifyLines}

OdooKeys == {OdooKey(j) : j \in OdooLines}

\* the joined rows under key k
RowsOfKey(k) ==
    {row \in comparison_df :
        \/ row.li # 0 /\ ShopifyKey(row.li) = k
        \/ row.ri # 0 /\ OdooKey(row.ri) = k}

Max(a, b) == IF a >= b THEN a ELSE b

\* C5: a key carried by m storefront lines and n ERP lines yields m*n rows
\* when both are positive, m rows when n = 0 and n rows when m = 0; the
\* number of rows is at least the number of keys of either side.
C5_Multiplicity ==
    Compared =>
        /\ \A k \in ShopifyKeys \cup OdooKeys :
              LET m == Cardinality({i \in ShopifyLines : ShopifyKey(i) = k})
                  n == Cardinality({j \in OdooLines : OdooKey(j) = k})
              IN  Cardinality(RowsOfKey(k)) =
                      IF m > 0 /\ n > 0 THEN m * n ELSE m + n
        /\ Cardinality(comparison_df) >=
               Max(Cardinality(ShopifyKeys), Cardinality(OdooKeys))

\* C5 witness: a key carried by two lines of each side, joined in four rows
C5_Witness ==
    /\ Compared
    /\ \E k \in ShopifyKeys :
          /\ Cardinality({i \in ShopifyLines : ShopifyKey(i) = k}) = 2
          /\ Cardinality({j \in OdooLines : OdooKey(j) = k}) = 2
          /\ Cardinality(RowsOfKey(k)) = 4

\* the raw quantity and price texts a joined row was made of (NULL for a
\* side that contributes no line)
ShopifyQuantityOf(row) ==
    IF row.li = 0 THEN NULL ELSE shopify_orders.rows[row.li].Lineitem_quantity

OdooQuantityOf(row) ==
    IF row.ri = 0 THEN NULL ELSE odoo_orders.rows[row.ri].Product_Quantity

ShopifyPriceOf(row) ==
    IF row.li = 0 THEN NULL ELSE shopify_orders.rows[row.li].Lineitem_price

OdooPriceOf(row) ==
    IF row.ri = 0 THEN NULL ELSE odoo_orders.rows[row.ri].Product_Unit_Price

\* the exact value of a numeral of at most three decimals, in thousandths
Thousandths(s) == DigitsVal(NumeralDigits(s)) * (10 ^ (3 - Decimals(s)))

\* the field-equality rule for one field of a row: a match when both values
\* are missing, no match when exactly one is missing and the other is not
\* zero
NullSafe(match, a, b) ==
    /\ (~IsNumeral(a) /\ ~IsNumeral(b)) => match
    /\ (~IsNumeral(a) /\ IsNumeral(b) /\ Thousandths(b) # 0) => ~match
    /\ (IsNumeral(a) /\ ~IsNumeral(b) /\ Thousandths(a) # 0) => ~match

\* C6: quantity_match and price_match are true when the field is missing
\* on both sides and false when it is missing on exactly one side and not
\* zero on the other; two present quantities match exactly when they are
\* numerically equal.
C6_NullSafety ==
    \A row \in comparison_df :
        /\ NullSafe(row.quantity_match,
                    ShopifyQuantityOf(row), OdooQuantityOf(row))
        /\ NullSafe(row.price_match, ShopifyPriceOf(row), OdooPriceOf(row))
        /\ (IsNumeral(ShopifyQuantityOf(row)) /\ IsNumeral(OdooQuantityOf(row)))
              => (row.quantity_match <=>
                    Thousandths(ShopifyQuantityOf(row)) =
                    Thousandths(OdooQuantityOf(row)))

\* C6 witness: a pair of lines that both lack the quantity, and a match
C6_Witness ==
    /\ Compared
    /\ \E row \in comparison_df :
          /\ row.li # 0 /\ row.ri # 0
          /\ ShopifyQuantityOf(row) = NULL /\ OdooQuantityOf(row) = NULL
          /\ row.quantity_match

Abs(x) == IF x < 0 THEN 0 - x ELSE x

\* C7: two present prices match exactly when they differ by less than 0.01:
\* a difference of 0.005 is a match, a difference of 0.01 or more is none.
C7_PriceTolerance ==
    \A row \in comparison_df :
        (IsNumeral(ShopifyPriceOf(row)) /\ IsNumeral(OdooPriceOf(row))) =>
            (row.price_match <=>
                Abs(Thousandths(ShopifyPriceOf(row))
                    - Thousandths(OdooPriceOf(row))) < 10)

\* two characters that are equal up to letter case
SameLetter(c, d) ==
    \/ c = d
    \/ \E k \in 1..Len(UpperChars) :
          {c, d} = {UpperChars[k], LowerChars[k]}

\* two texts that are equal up to letter case
EqualsIgnoreCase(a, b) ==
    /\ a # NULL /\ b # NULL
    /\ Len(a) = Len(b)
    /\ \A i \in 1..Len(a) : SameLetter(a[i], b[i])

\* a text without its leading and trailing blanks
Strip(s) ==
    IF s = NULL THEN NULL
    ELSE IF \A i \in 1..Len(s) : s[i] = " " THEN <<>>
    ELSE SubSeq(s,
                CHOOSE i \in 1..Len(s) :
                    s[i] # " " /\ \A j \in 1..(i - 1) : s[j] = " ",
                CHOOSE i \in 1..Len(s) :
                    s[i] # " " /\ \A j \in (i + 1)..Len(s) : s[j] = " ")

\* storefront line i and ERP line j are joined in one row, present on both
\* sides
Paired(i, j) ==
    \E row \in comparison_df :
        row.li = i /\ row.ri = j /\ row.in_shopify /\ row.in_odoo

\* C8 as stated: a storefront line and an ERP line whose order numbers and
\* item codes differ only in letter case and in leading or trailing blanks
\* are paired in one row with both presence flags true.
C8_CaseAndBlanks ==
    Compared =>
        \A i \in ShopifyLines : \A j \in OdooLines :
            (/\ EqualsIgnoreCase(Strip(shopify_orders.rows[i].Name),
                                 Strip(odoo_orders.rows[j].Shopify_Order_Number))
             /\ EqualsIgnoreCase(Strip(shopify_orders.rows[i].Lineitem_sku),
                                 Strip(odoo_orders.rows[j].Product_Default_Code)))
            => Paired(i, j)

\* C8 amended: a storefront line and an ERP line whose order numbers and
\* item codes differ only in letter case are paired in one row with both
\* presence flags true (blanks are significant).
C8_CaseOnly ==
    Compared =>
        \A i \in ShopifyLines : \A j \in OdooLines :
            (/\ EqualsIgnoreCase(shopify_orders.rows[i].Name,
                                 odoo_orders.rows[j].Shopify_Order_Number)
             /\ EqualsIgnoreCase(shopify_orders.rows[i].Lineitem_sku,
                                 odoo_orders.rows[j].Product_Default_Code))
            => Paired(i, j)

\* C8 witness: a pair of lines whose order numbers differ in letter case
C8_Witness ==
    /\ Compared
    /\ \E i \in ShopifyLines : \E j \in OdooLines :
          /\ shopify_orders.rows[i].Name
                # odoo_orders.rows[j].Shopify_Order_Number
          /\ EqualsIgnoreCase(shopify_orders.rows[i].Name,
                              odoo_orders.rows[j].Shopify_Order_Number)
          /\ Paired(i, j)

\* a numeral that denotes the number n/1000
IsNumber(s, n) == IsNumeral(s) /\ Thousandths(s) = n

\* the storefront line of scenario A: '#1001', 'ABC', quantity 2, 10.00
ScenarioAShopify(i) ==
    /\ shopify_orders.rows[i].Name = t_h1001
    /\ shopify_orders.rows[i].Lineitem_sku = t_ABC
    /\ IsNumber(shopify_orders.rows[i].Lineitem_quantity, 2000)
    /\ IsNumber(shopify_orders.rows[i].Lineitem_price, 10000)

\* the ERP line of scenario A under the order number ref: 'abc', 2, 10.00
ScenarioAOdoo(j, ref) ==
    /\ odoo_orders.rows[j].Shopify_Order_Number = ref
    /\ odoo_orders.rows[j].Product_Default_Code = t_abc
    /\ IsNumber(odoo_orders.rows[j].Product_Quantity, 2000)
    /\ IsNumber(odoo_orders.rows[j].Product_Unit_Price, 10000)

JoinedSynced(i, j) ==
    \E row \in comparison_df :
        row.li = i /\ row.ri = j /\ row.sync_status = "Synced"

\* C9 as stated: the storefront line '#1001'/'ABC' and the ERP line
\* '1001'/'abc' of equal quantity and price are one row, 'Synced'.
C9_ScenarioA ==
    Compared =>
        \A i \in ShopifyLines : \A j \in OdooLines :
            (ScenarioAShopify(i) /\ ScenarioAOdoo(j, t_1001))
            => JoinedSynced(i, j)

\* C9 amended: the storefront line '#1001'/'ABC' and the ERP line
\* '#1001'/'abc' of equal quantity and price are one row, 'Synced'.
C9_ScenarioAWithHash ==
    Compared =>
        \A i \in ShopifyLines : \A j \in OdooLines :
            (ScenarioAShopify(i) /\ ScenarioAOdoo(j, t_h1001))
            => JoinedSynced(i, j)

\* C9 witness: the two lines of the amended scenario, joined and 'Synced'
C9_Witness ==
    /\ Compared
    /\ \E i \in ShopifyLines : \E j \in OdooLines :
          ScenarioAShopify(i) /\ ScenarioAOdoo(j, t_h1001)
          /\ JoinedSynced(i, j)

\* create_excel_report has made excel_report and the run has not ended
ReportMade == prog = "create_excel_report" /\ pc = "export"

\* legacy_lookup maps 'OLD' to 'NEW'
MapsOldToNew ==
    \E k \in 1..Len(legacy_lookup.rows) :
        legacy_lookup.rows[k] = LegacyRow(t_OLD, t_NEW)

\* the report row of storefront order name carries the data of ERP line j
ReportJoins(name, j) ==
    \E row \in excel_report.rows :
        /\ row.Name = name
        /\ row.oi = j
        /\ row.Delivery_Status = odoo_orders.rows[j].Delivery_Status

\* scenario B for a storefront line under the SKU sku: with 'OLD' mapped to
\* 'NEW', the line is joined to the ERP line 'NEW-01G' of its order
ScenarioB(sku) ==
    (ReportMade /\ MapsOldToNew) =>
        \A i \in ShopifyLines : \A j \in OdooLines :
            (/\ shopify_orders.rows[i].Lineitem_sku = sku
             /\ odoo_orders.rows[j].Odoo_Name = shopify_orders.rows[i].Name
             /\ odoo_orders.rows[j].Product_Default_Code = t_NEW01G)
            => ReportJoins(shopify_orders.rows[i].Name, j)

BaseSkuMade ==
    prog = "create_excel_report" /\ pc \in {"excel_report", "export"}

LookupRows == 1..Len(legacy_lookup.rows)

\* the code c is a key of the legacy lookup
IsLegacyKey(c) == \E k \in LookupRows : legacy_lookup.rows[k].legacy_sku = c

\* legacy_lookup is a mapping: no key is missing or listed twice and every
\* key has a current code
LookupIsMap ==
    /\ \A k \in LookupRows :
          /\ legacy_lookup.rows[k].legacy_sku # NULL
          /\ legacy_lookup.rows[k].base_sku # NULL
    /\ \A k, m \in LookupRows :
          legacy_lookup.rows[k].legacy_sku = legacy_lookup.rows[m].legacy_sku
              => k = m

\* the current code the lookup maps the key c to
MappedCode(c) ==
    legacy_lookup.rows[CHOOSE k \in LookupRows :
                           legacy_lookup.rows[k].legacy_sku = c].base_sku

\* the effective SKU of the raw SKU c
EffectiveSku(c) ==
    IF IsLegacyKey(c) THEN MappedCode(c) \o <<"-", "0", "1", "G">> ELSE c

\* C11: with legacy_lookup a mapping, every storefront line yields one row
\* of shopify_orders_basesku, in its place, with its order, quantity and
\* price; its SKU is the mapped code followed by '-01G' when the raw SKU is
\* a key of the lookup, and the raw SKU otherwise.
C11_LegacyResolution ==
    (BaseSkuMade /\ LookupIsMap) =>
        /\ Len(shopify_orders_basesku.rows) = Len(shopify_orders.rows)
        /\ \A i \in ShopifyLines :
              LET A == shopify_orders.rows[i]
                  R == shopify_orders_basesku.rows[i]
              IN  /\ R.Name = A.Name
                  /\ R.Lineitem_quantity = A.Lineitem_quantity
                  /\ R.Lineitem_price = A.Lineitem_price
                  /\ R.SKU = EffectiveSku(A.Lineitem_sku)

\* C11 witness: a resolved table with a line under a legacy key, now
\* 'NEW-01G', and a line under no key, its SKU unchanged
C11_Witness ==
    /\ BaseSkuMade
    /\ LookupIsMap
    /\ \E i, j \in ShopifyLines :
          /\ shopify_orders.rows[i].Lineitem_sku = t_OLD
          /\ IsLegacyKey(t_OLD)
          /\ shopify_orders_basesku.rows[i].SKU = t_NEW01G
          /\ shopify_orders.rows[j].Lineitem_sku = t_OLD01
          /\ ~IsLegacyKey(t_OLD01)
          /\ shopify_orders_basesku.rows[j].SKU = t_OLD01

\* the SKU column of the rows create_shopify_orders_basesku makes of a
\* storefront line under the SKU c: the resolutions of c
ResolveCode(c) ==
    LET rows == BaseSkuRowsOf(ShopifyRow(t_h1001, c, t_2, t_10p00),
                              legacy_lookup.rows)
    IN  [k \in DOMAIN rows |-> rows[k].SKU]

\* the SKU of every row of shopify_orders_basesku is the single resolution
\* of the raw SKU of its line and the single resolution of itself
ResolvedOnceAndForAll ==
    \A i \in ShopifyLines :
        LET c == shopify_orders.rows[i].Lineitem_sku
            r == shopify_orders_basesku.rows[i].SKU
        IN  ResolveCode(c) = <<r>> /\ ResolveCode(r) = <<r>>

\* no current code of the lookup, the suffix appended, is a key again
NoChain ==
    \A k \in LookupRows :
        ~IsLegacyKey(legacy_lookup.rows[k].base_sku \o <<"-", "0", "1", "G">>)

\* C12 as stated: for every lookup that is a mapping, resolving a code
\* yields one result and resolving that result again returns it unchanged.
C12_Idempotence ==
    (BaseSkuMade /\ LookupIsMap) => ResolvedOnceAndForAll

\* C12 amended: for every lookup that is a mapping none of whose current
\* codes, the suffix appended, is a key again, resolving a code yields one
\* result and resolving that result again returns it unchanged.
C12_IdempotenceWithoutChain ==
    (BaseSkuMade /\ LookupIsMap /\ NoChain) => ResolvedOnceAndForAll

\* C12 witness: the line 'OLD' resolved to 'NEW-01G', which resolves to
\* itself
C12_Witness ==
    /\ BaseSkuMade
    /\ LookupIsMap
    /\ NoChain
    /\ \E i \in ShopifyLines :
          /\ shopify_orders.rows[i].Lineitem_sku = t_OLD
          /\ shopify_orders_basesku.rows[i].SKU = t_NEW01G
          /\ ResolveCode(t_NEW01G) = <<t_NEW01G>>

\* C13: both joins are evaluated on resolved item codes: the key column of
\* the storefront side of the comparison merge is the lower-cased
\* effective SKU of the line, and the report join runs only on the table
\* the resolution has made.
C13_ResolutionPrecedesJoin ==
    /\ (Compared /\ legacy_lookup.exists /\ LookupIsMap) =>
          \A row \in comparison_df :
              row.li # 0 =>
                  row.shopify_sku_lower =
                      StrLower(EffectiveSku(
                          shopify_orders.rows[row.li].Lineitem_sku))
    /\ (prog = "create_excel_report" /\ pc \in {"excel_report", "export"})
          => shopify_orders_basesku.exists

(***************************************************************************)
(* Properties of the runs of compare_orders.py                             *)
(***************************************************************************)

\* C14: no input is fatal: a run that has found the two staged tables, at
\* least one of them with lines, goes on from the load to the comparison
\* (whose rows it then saves) and does not abort, also when the other side
\* has no line.
C14_NoFatalInput ==
    [][(/\ prog = "compare_orders" /\ pc = "load"
        /\ (shopify_orders.rows # <<>> \/ odoo_orders.rows # <<>>)) =>
           (prog' = "compare_orders" /\ pc' = "compare")]_vars

\* a text that is present and is no number
Malformed(s) == s # NULL /\ ~IsNumeral(s)

\* the coercion rule for one field of a joined row: a malformed text on a
\* side is read as a missing value, which matches a missing or malformed
\* value of the other side and no number
Coerced(mine, value, other, match) ==
    Malformed(mine) => (value = NaN /\ (match <=> ~IsNumeral(other)))

\* C15: a line with a malformed quantity or price is joined and classified
\* like any other, the field read as a missing value: it matches a missing
\* or malformed value of the other side and no number; every staged line
\* still has its row.
C15_Coercion ==
    /\ \A row \in comparison_df :
          /\ row.sync_status \in SyncStatuses
          /\ Coerced(ShopifyQuantityOf(row), row.shopify_quantity,
                     OdooQuantityOf(row), row.quantity_match)
          /\ Coerced(OdooQuantityOf(row), row.odoo_quantity,
                     ShopifyQuantityOf(row), row.quantity_match)
          /\ Coerced(ShopifyPriceOf(row), row.shopify_price,
                     OdooPriceOf(row), row.price_match)
          /\ Coerced(OdooPriceOf(row), row.odoo_price,
                     ShopifyPriceOf(row), row.price_match)
    /\ Compared =>
          /\ \A i \in ShopifyLines : RowsOfShopify(i) # {}
          /\ \A j \in OdooLines : RowsOfOdoo(j) # {}

\* C15 witness: a joined row whose storefront quantity is malformed and
\* whose ERP quantity is a number: a quantity mismatch; its ERP price is
\* malformed and its storefront price is missing: a price match
C15_Witness ==
    /\ Compared
    /\ \E row \in comparison_df :
          /\ row.li # 0 /\ row.ri # 0
          /\ Malformed(ShopifyQuantityOf(row))
          /\ IsNumeral(OdooQuantityOf(row))
          /\ row.sync_status = "Quantity mismatch"
          /\ Malformed(OdooPriceOf(row))
          /\ ShopifyPriceOf(row) = NULL
          /\ row.price_match

\* the item codes of the two lines a joined row was made of
ShopifySkuOf(row) == shopify_orders.rows[row.li].Lineitem_sku

OdooSkuOf(row) == odoo_orders.rows[row.ri].Product_Default_Code

\* C16: a line without item code has a row; a row that pairs it with a
\* line of the other side pairs two lines without item code whose order
\* numbers are equal up to letter case; no row pairs a missing item code
\* with the empty text.
C16_NullItemCode ==
    Compared =>
        /\ \A i \in ShopifyLines :
              shopify_orders.rows[i].Lineitem_sku = NULL
                  => RowsOfShopify(i) # {}
        /\ \A j \in OdooLines :
              odoo_orders.rows[j].Product_Default_Code = NULL
                  => RowsOfOdoo(j) # {}
        /\ \A row \in comparison_df :
              (row.li # 0 /\ row.ri # 0
               /\ (ShopifySkuOf(row) = NULL \/ OdooSkuOf(row) = NULL)) =>
                  /\ ShopifySkuOf(row) = NULL
                  /\ OdooSkuOf(row) = NULL
                  /\ EqualsIgnoreCase(
                         shopify_orders.rows[row.li].Name,
                         odoo_orders.rows[row.ri].Shopify_Order_Number)

\* C16 witness: a storefront line without item code, paired with the ERP
\* line of its order that has none, beside an ERP line of the same order
\* whose item code is the empty text, left alone
C16_Witness ==
    /\ Compared
    /\ \E row, alone \in comparison_df :
          /\ row.li # 0 /\ row.ri # 0
          /\ ShopifySkuOf(row) = NULL /\ OdooSkuOf(row) = NULL
          /\ alone.li = 0 /\ alone.ri # 0
          /\ OdooSkuOf(alone) = <<>>
          /\ odoo_orders.rows[alone.ri].Shopify_Order_Number
                = odoo_orders.rows[row.ri].Shopify_Order_Number

Flagged(i1, i2) ==
    \E row \in sku_mismatches.rows : row.i1 = i1 /\ row.i2 = i2

\* the on-hand quantities shopify_inventory records for an item code
OnHandOf(code) ==
    {si.on_hand.n : si \in {x \in shopify_inventory.rows : x.sku = code}}

\* the odoostock rows i1 and i2 are two sizes of one plant
SameplantOtherSize(i1, i2) ==
    /\ odoostock.rows[i1].plant_prefix = odoostock.rows[i2].plant_prefix
    /\ odoostock.rows[i1].size_suffix # odoostock.rows[i2].size_suffix

\* C18, as stated: after import_shopify_inventory.py ran its SKU mismatch
\* query, a pair (A, B) of odoostock rows is flagged exactly when A and B
\* have the same plant_prefix and different size_suffix, the ERP quantity
\* of A is not zero where the storefront records zero on hand for A, and
\* the ERP quantity of B is zero where the storefront records a quantity
\* other than zero for B.
C18_ReciprocalMismatch ==
    sku_mismatches.exists =>
        \A i1, i2 \in DOMAIN odoostock.rows :
            Flagged(i1, i2) <=>
                /\ SameplantOtherSize(i1, i2)
                /\ odoostock.rows[i1].quantity.n # 0
                /\ 0 \in OnHandOf(odoostock.rows[i1].default_code)
                /\ odoostock.rows[i2].quantity.n = 0
                /\ OnHandOf(odoostock.rows[i2].default_code) \ {0} # {}

\* C18, amended: a pair (A, B) of odoostock rows is flagged exactly when
\* A and B have the same plant_prefix and different size_suffix, the ERP
\* quantity of A is positive where the storefront records zero on hand
\* for A, and the ERP quantity of B is zero where the storefront records a
\* positive quantity on hand for B.
C18_ReciprocalMismatchPositive ==
    sku_mismatches.exists =>
        \A i1, i2 \in DOMAIN odoostock.rows :
            Flagged(i1, i2) <=>
                /\ SameplantOtherSize(i1, i2)
                /\ odoostock.rows[i1].quantity.n > 0
                /\ 0 \in OnHandOf(odoostock.rows[i1].default_code)
                /\ odoostock.rows[i2].quantity.n = 0
                /\ \E h \in OnHandOf(odoostock.rows[i2].default_code) : h > 0

\* AB-1G, 3 in the ERP and 0 on the storefront, is flagged with AB-3G, 0 in
\* the ERP and 4 on the storefront, and not the other way round
C18_Witness ==
    /\ sku_mismatches.exists
    /\ Len(odoostock.rows) = 2
    /\ odoostock.rows[1].default_code = c_AB1G
    /\ odoostock.rows[2].default_code = c_AB3G
    /\ odoostock.rows[1].quantity = Num(3)
    /\ odoostock.rows[2].quantity = Num(0)
    /\ OnHandOf(c_AB1G) = {0}
    /\ OnHandOf(c_AB3G) = {4}
    /\ Flagged(1, 2)
    /\ ~Flagged(2, 1)

(***************************************************************************)
(* C19: the possible size mismatches of get_odoo_stock_current.py          *)
(***************************************************************************)

\* stock_cross_reference holds, for the ERP item of the odoostock row o, a
\* size mismatch note that points at the storefront item S
Noted(o, S) ==
    \E r \in stock_cross_reference.rows :
        /\ r.product_id = o.product_id
        /\ r.Size_Mismatch_Note # NULL
        /\ r.Potential_Correct_SKU = S.sku

\* the storefront shows zero, or no, quantity for the item code
ZeroOrNoQuantity(code) ==
    \/ \A k \in DOMAIN shopifyproducts.rows :
          shopifyproducts.rows[k].sku # code
    \/ \E k \in DOMAIN shopifyproducts.rows :
          /\ shopifyproducts.rows[k].sku = code
          /\ \/ shopifyproducts.rows[k].inventory_quantity.null
             \/ shopifyproducts.rows[k].inventory_quantity.n = 0

\* the conditions under which C19 has X point at S
Proximate(o, S) ==
    /\ ZeroOrNoQuantity(o.default_code)
    /\ o.quantity.n > 0
    /\ S.sku # o.default_code
    /\ get_plant_prefix(S.sku) = o.plant_prefix
    /\ ~S.inventory_quantity.null
    /\ S.inventory_quantity.n > 0
    /\ o.quantity.n - S.inventory_quantity.n <= SizeTolerance
    /\ S.inventory_quantity.n - o.quantity.n <= SizeTolerance

\* the pairs of an ERP stock row and a storefront product
StockAndProducts ==
    {odoostock.rows[i] : i \in DOMAIN odoostock.rows}
        \X {shopifyproducts.rows[k] : k \in DOMAIN shopifyproducts.rows}

\* the second half of C19: an item whose plant_prefix differs from X's, or
\* whose quantity differs by more than 5, is never proposed
NeverProposedOtherwise ==
    stock_cross_reference.exists =>
        \A p \in StockAndProducts :
            Noted(p[1], p[2]) =>
                /\ get_plant_prefix(p[2].sku) = p[1].plant_prefix
                /\ p[1].quantity.n - p[2].inventory_quantity.n
                      <= SizeTolerance
                /\ p[2].inventory_quantity.n - p[1].quantity.n
                      <= SizeTolerance

\* C19: in stock_cross_reference the ERP item X carries a size mismatch
\* note pointing at the storefront item S exactly when the storefront
\* shows zero or no quantity for X, the ERP quantity of X is positive, S is
\* another item with the plant_prefix of X and a positive storefront
\* quantity, and the two quantities differ by at most 5; an item with
\* another plant_prefix, or a quantity further away, is never proposed.
C19_ProximityHeuristic ==
    /\ stock_cross_reference.exists =>
          \A p \in StockAndProducts :
              Noted(p[1], p[2]) <=> Proximate(p[1], p[2])
    /\ NeverProposedOtherwise

(***************************************************************************)
(* C20: plant_prefix and size_suffix as a split of the item code           *)
(***************************************************************************)

\* the rows of odoostock whose item code contains a '-'
HyphenRows == {i \in DOMAIN odoostock.rows :
                  Hyphens(odoostock.rows[i].default_code) # {}}

\* plant_prefix + '-' + size_suffix is the code, and the suffix has no '-'
SplitsLosslessly(row) ==
    /\ row.plant_prefix \o <<"-">> \o row.size_suffix = row.default_code
    /\ Hyphens(row.size_suffix) = {}

\* the rows i and j of odoostock carry the same code or different pairs
\* (plant_prefix, size_suffix)
PairTellsApart(i, j) ==
    LET a == odoostock.rows[i]
        b == odoostock.rows[j]
    IN  a.default_code # b.default_code =>
            <<a.plant_prefix, a.size_suffix>> #
                <<b.plant_prefix, b.size_suffix>>

\* C20, as stated: in odoostock every item code that contains '-' is the
\* plant_prefix, a '-' and the size_suffix, the size_suffix has no '-',
\* and two rows with distinct item codes, whatever the codes, never carry
\* the same pair (plant_prefix, size_suffix).
C20_LosslessSplit ==
    /\ \A i \in HyphenRows : SplitsLosslessly(odoostock.rows[i])
    /\ \A i, j \in DOMAIN odoostock.rows : PairTellsApart(i, j)

\* C20, amended: in odoostock every item code that contains '-' is the
\* plant_prefix, a '-' and the size_suffix, and the size_suffix has no
\* '-'; two rows with distinct item codes that both contain '-' never
\* carry the same pair; and every item code without '-' gets the pair of
\* two empty texts.
C20_LosslessSplitOfHyphenated ==
    /\ \A i \in HyphenRows : SplitsLosslessly(odoostock.rows[i])
    /\ \A i, j \in HyphenRows : PairTellsApart(i, j)
    /\ \A i \in (DOMAIN odoostock.rows) \ HyphenRows :
          /\ odoostock.rows[i].plant_prefix = <<>>
          /\ odoostock.rows[i].size_suffix = <<>>

\* odoostock holds the codes AB-C-3G and AB-3G, split into (AB-C, 3G) and
\* (AB, 3G)
C20_Witness ==
    /\ odoostock.exists
    /\ \E i, j \in HyphenRows :
          /\ odoostock.rows[i].default_code = c_ABC3G
          /\ odoostock.rows[i].plant_prefix = <<"A", "B", "-", "C">>
          /\ odoostock.rows[j].default_code = c_AB3G
          /\ odoostock.rows[j].plant_prefix = c_AB
          /\ odoostock.rows[i].size_suffix = odoostock.rows[j].size_suffix

(***************************************************************************)
(* C24: what a load that ends with status 0 leaves in its table            *)
(***************************************************************************)

\* the rows of the paid lines of the fetch that trace keeps
PaidOfThisRun ==
    LET paid == SelectSeq(trace[1].fetched.orders,
                          LAMBDA o : o.Financial_Status = t_paid)
    IN  [i \in 1..Len(paid) |-> paid[i].row]

\* C24, as stated: whenever update_shopify_orders has ended with status 0,
\* shopify_orders holds exactly the paid lines of the fetch of that run,
\* and whenever refresh_odoo_orders has ended with status 0, odoo_orders
\* holds exactly the lines of the fetch of that run; no row of an earlier
\* run is left.
C24_SuccessfulLoadReplaces ==
    /\ last_exit = [prog |-> "update_shopify_orders", code |-> 0] =>
          shopify_orders = Table(PaidOfThisRun)
    /\ last_exit = [prog |-> "refresh_odoo_orders", code |-> 0] =>
          odoo_orders = Table(trace[1].fetched.orders)

\* C24, amended: whenever update_shopify_orders has ended with status 0
\* after a fetch with at least one paid line, shopify_orders holds exactly
\* the paid lines of that fetch, and whenever refresh_odoo_orders has ended
\* with status 0 after a fetch with at least one line, odoo_orders holds
\* exactly the lines of that fetch; no row of an earlier run is left.
C24_LoadOfSomethingReplaces ==
    /\ (/\ last_exit = [prog |-> "update_shopify_orders", code |-> 0]
        /\ PaidOfThisRun # <<>>) =>
          shopify_orders = Table(PaidOfThisRun)
    /\ (/\ last_exit = [prog |-> "refresh_odoo_orders", code |-> 0]
        /\ trace[1].fetched.orders # <<>>) =>
          odoo_orders = Table(trace[1].fetched.orders)

\* update_shopify_orders ended with status 0 after a fetch of two paid
\* lines and a pending one: the table holds the two paid lines and
\* nothing else
C24_Witness ==
    /\ last_exit = [prog |-> "update_shopify_orders", code |-> 0]
    /\ Len(trace[1].fetched.orders) = 3
    /\ shopify_orders.exists
    /\ Len(shopify_orders.rows) = 2
    /\ shopify_orders.rows[2] = ShopifyRow(t_hA7, t_ABC, t_3, t_10p00)
    /\ \A i \in DOMAIN shopify_orders.rows :
          shopify_orders.rows[i] # ShopifyRow(t_h1002, t_ABC, t_3, t_10p00)

(***************************************************************************)
(* C21: the options of Shopify_Odoo_Stock_Cross_Ref/main.py                *)
(***************************************************************************)

\* main has run a command that updates the Shopify data
RanShopifyUpdate ==
    \E i \in DOMAIN trace : trace[i].command = "get_shopify_data_current.py"

\* main has run a command that updates the Odoo data
RanOdooUpdate ==
    \E i \in DOMAIN trace :
        /\ trace[i].command = "get_odoo_stock_current.py"
        /\ trace[i].args # "--report-only"

\* C21: when the inventory sync entry point has ended, it has run the
\* Shopify update exactly if it was invoked with --shopify or --all, and
\* the Odoo update exactly if it was invoked with --odoo or --all; with
\* --report it has run no update.
C21_OptionsHonoured ==
    (/\ world.for = "sync_inventory_main"
     /\ prog = "none"
     /\ last_exit.prog = "sync_inventory_main") =>
        /\ RanShopifyUpdate <=> world.option \in {"--shopify", "--all"}
        /\ RanOdooUpdate <=> world.option \in {"--odoo", "--all"}

(***************************************************************************)
(* C22, C23: the pipeline of Order_Flow/main.py                            *)
(***************************************************************************)

\* the scripts of the pipeline, in the order of the module docstring
PipelineOrder ==
    <<"update_shopify_orders.py", "refresh_odoo_orders.py",
      "create_excel_report.py", "compare_orders.py">>

\* main has returned or left with sys.exit
MainEnded == prog = "none" /\ last_exit.prog = "order_flow_main"

\* C22: main.py runs update_shopify_orders, refresh_odoo_orders,
\* create_excel_report and compare_orders in exactly that order; a script
\* has been started only if every earlier one ended successfully; and as
\* soon as one of the first three has failed no later one is started and
\* the process has ended with status 1.
C22_PipelineOrder ==
    world.for = "order_flow_main" =>
        /\ Len(trace) <= 4
        /\ \A i \in DOMAIN trace :
              /\ trace[i].script = PipelineOrder[i]
              /\ \A j \in 1..(i - 1) : trace[j].ok
        /\ \A i \in DOMAIN trace :
              (i <= 3 /\ ~trace[i].ok) =>
                  /\ Len(trace) = i
                  /\ MainEnded
                  /\ last_exit.code = 1

\* the pipeline ran to compare_orders.py after three successes
C22_Witness ==
    /\ world.for = "order_flow_main"
    /\ Len(trace) = 4
    /\ trace[4].script = "compare_orders.py"
    /\ \A j \in 1..3 : trace[j].ok

\* C23: when main.py has ended, its exit status is 0 if and only if the
\* first three scripts all succeeded, and then compare_orders.py has been
\* run and the successful completion logged, whether compare_orders.py
\* succeeded or failed.
C23_CompareOptional ==
    (world.for = "order_flow_main" /\ MainEnded) =>
        LET firstThree == Len(trace) >= 3 /\ \A i \in 1..3 : trace[i].ok
        IN  /\ last_exit.code = 0 <=> firstThree
            /\ firstThree =>
                  /\ Len(trace) = 4
                  /\ ret.value = "COMPLETED SUCCESSFULLY"

\* main ended with status 0 although compare_orders.py failed
C23_Witness ==
    /\ world.for = "order_flow_main"
    /\ MainEnded
    /\ Len(trace) = 4
    /\ ~trace[4].ok
    /\ last_exit.code = 0

(***************************************************************************)
(* C25: fetch_shopify_orders signals failure by value                      *)
(***************************************************************************)

\* fetch_shopify_orders has ended
FetchEnded ==
    /\ world.for = "fetch_shopify_orders"
    /\ prog = "none"
    /\ last_exit.prog = "fetch_shopify_orders"

RECURSIVE OrdersFrom(_)
\* the orders of the pages requested from the i-th on, in page order
OrdersFrom(i) ==
    IF i > Len(trace) THEN <<>> ELSE trace[i].orders \o OrdersFrom(i + 1)

\* what C25 says of a fetch that has ended, apart from the exceptions
ReturnsNoneOrAll ==
    IF \E i \in DOMAIN trace : trace[i].outcome # "ok"
    THEN ret.kind = "return None"
    ELSE /\ ret = [kind |-> "return", value |-> OrdersFrom(1)]
         /\ \A i \in DOMAIN trace :
               (trace[i].orders = <<>> \/ ~trace[i].next) <=> i = Len(trace)

\* C25: when fetch_shopify_orders has ended, no exception has left it; if
\* a request failed, on the first page or on a later one, it has returned
\* None; otherwise it has returned the orders of all the pages requested,
\* in page order, and the last page requested is the first one that was
\* empty or had no rel="next" link.
C25_FailureByValue ==
    FetchEnded =>
        /\ ret.kind \in {"return", "return None"}
        /\ ReturnsNoneOrAll

\* ---------------------------------------------------------------------
\* C26: the retries of fetch_inventory_page
\* ---------------------------------------------------------------------

\* fetch_inventory_page is running or was the last to run
InFetchPage ==
    /\ world.for = "fetch_inventory_page"
    /\ \/ prog = "fetch_inventory_page"
       \/ prog = "none" /\ last_exit.prog = "fetch_inventory_page"

\* the positions in trace of the requests, and the number of requests
\* made up to position i
Posts == {i \in DOMAIN trace : trace[i].call = "post"}

PostsUpTo(i) == Cardinality({j \in Posts : j <= i})

\* C26: for one page fetch_inventory_page makes at most 3 requests.  A
\* request that succeeds is the last thing it does, and it returns the
\* page of that response.  After the k-th request failed, for k = 1 and
\* k = 2, a GraphQL 'errors' response included, it sleeps 2^(k-1) seconds
\* (1 s, then 2 s) and then makes the next request; after the third
\* failure it sleeps no more and raises that error.
C26_BoundedRetry ==
    InFetchPage =>
        /\ Cardinality(Posts) <= 3
        /\ \A i \in DOMAIN trace :
              LET k == PostsUpTo(i)
                  last == i = Len(trace)
                  ended == prog = "none"
              IN  /\ trace[i].call = "post" /\ trace[i].outcome = "ok" =>
                        /\ last /\ ended
                        /\ ret.kind = "return"
                        /\ ret.value.products = world.products
                        /\ ret.value.has_next_page = world.has_next_page
                        /\ ret.value.end_cursor = world.end_cursor
                  /\ trace[i].call = "post" /\ trace[i].outcome # "ok"
                        /\ k < 3 =>
                        /\ ~last
                        /\ trace[i + 1].call = "sleep"
                        /\ trace[i + 1].seconds = 2 ^ (k - 1)
                  /\ trace[i].call = "post" /\ trace[i].outcome # "ok"
                        /\ k = 3 =>
                        /\ last /\ ended
                        /\ ret = [kind |-> "raise", value |-> trace[i].outcome]
                  /\ trace[i].call = "sleep" =>
                        /\ i > 1
                        /\ trace[i - 1].call = "post"
                        /\ trace[i - 1].outcome # "ok"
                        /\ ~last => trace[i + 1].call = "post"
                  /\ last /\ ended => trace[i].call = "post"

\* a GraphQL 'errors' response, then a connection error, then a page
C26_Witness ==
    /\ InFetchPage
    /\ prog = "none"
    /\ Len(trace) = 5
    /\ trace[1].outcome = "GraphQL errors"
    /\ trace[2].seconds = 1
    /\ trace[3].outcome = "connection error"
    /\ trace[4].seconds = 2
    /\ trace[5].outcome = "ok"
    /\ ret.kind = "return"

\* three failures
C26_WitnessRaised ==
    /\ InFetchPage
    /\ prog = "none"
    /\ Cardinality(Posts) = 3
    /\ ret.kind = "raise"

\* ---------------------------------------------------------------------
\* C27: authenticate_with_retry
\* ---------------------------------------------------------------------

\* authenticate_with_retry is running or was the last to run
InAuthenticate ==
    /\ world.for = "authenticate_with_retry"
    /\ \/ prog = "authenticate_with_retry"
       \/ prog = "none" /\ last_exit.prog = "authenticate_with_retry"

\* the positions in trace of the calls of authenticate
AuthCalls == {n \in DOMAIN trace : trace[n].call = "authenticate"}

\* the errors after which authenticate_with_retry tries again
Retryable == {"Fault KeyError: 'res.users'", "ConnectionRefusedError"}

\* C27: authenticate_with_retry calls authenticate at most retries times.
\* A call that returns is the last thing it does, and its value is
\* returned.  A Fault without "KeyError: 'res.users'" is the last thing
\* it does, and is raised again.  Every other failure is followed by a
\* delay, and then by another call unless it was the retries-th call;
\* when the function has ended after retries calls that all failed in
\* this way it has raised 'Could not authenticate with Odoo after several
\* retries.'
C27_AuthenticateProtocol ==
    InAuthenticate =>
        /\ Cardinality(AuthCalls) <= world.retries
        /\ \A n \in DOMAIN trace :
              LET k == Cardinality({m \in AuthCalls : m <= n})
                  last == n = Len(trace)
                  ended == prog = "none"
              IN  /\ trace[n].outcome = "returned" =>
                        /\ last /\ ended
                        /\ ret.kind = "return"
                        /\ ret.value \in {"2", "False"}
                  /\ trace[n].outcome = "Fault Access Denied" =>
                        /\ last /\ ended
                        /\ ret = [kind |-> "raise",
                                  value |-> "Fault Access Denied"]
                  /\ trace[n].outcome \in Retryable =>
                        /\ ~last
                        /\ trace[n + 1] = [call |-> "sleep", outcome |-> "",
                                           seconds |-> world.delay]
                        /\ k < world.retries /\ n + 1 < Len(trace) =>
                              trace[n + 2].call = "authenticate"
                        /\ k < world.retries => ~(ended /\ n + 1 = Len(trace))
                  /\ trace[n].call = "sleep" =>
                        /\ n > 1
                        /\ trace[n - 1].outcome \in Retryable
        /\ (/\ prog = "none"
            /\ Cardinality(AuthCalls) = world.retries
            /\ \A n \in AuthCalls : trace[n].outcome \in Retryable)
           => ret = [kind |-> "raise",
                     value |-> "Could not authenticate with Odoo after several retries."]

\* Odoo was not ready twice, then authenticate returned
C27_Witness ==
    /\ InAuthenticate
    /\ prog = "none"
    /\ world.retries = 10
    /\ Len(trace) = 5
    /\ trace[1].outcome = "Fault KeyError: 'res.users'"
    /\ trace[3].outcome = "ConnectionRefusedError"
    /\ trace[5].outcome = "returned"
    /\ ret = [kind |-> "return", value |-> "2"]

\* three calls allowed, three calls failed
C27_WitnessGaveUp ==
    /\ InAuthenticate
    /\ prog = "none"
    /\ world.retries = 3
    /\ Cardinality(AuthCalls) = 3
    /\ ret.value = "Could not authenticate with Odoo after several retries."

\* a fault that is not retried
C27_WitnessFault ==
    /\ InAuthenticate
    /\ prog = "none"
    /\ Cardinality(AuthCalls) = 2
    /\ ret.value = "Fault Access Denied"

\* ---------------------------------------------------------------------
\* C28: the order import and the sale orders Odoo has
\* ---------------------------------------------------------------------

\* process_shopify_exports ran last and wrote its files
ExportsProcessed ==
    /\ world.for = "process_shopify_exports"
    /\ prog = "none"
    /\ last_exit = [prog |-> "process_shopify_exports", code |-> 0]

\* the export lines that 02_orders_upload.csv has a row of
WrittenLines == {out.orders[j].line : j \in DOMAIN out.orders}

\* the export lines the upload is to hold: those with a SKU of orders
\* Odoo has no sale order of
LinesToImport ==
    {i \in DOMAIN world.export :
        /\ world.export[i].sku # ""
        /\ world.export[i].Name \notin world.sale_orders}

\* C28: when process_shopify_exports has written 02_orders_upload.csv,
\* whether the query of Odoo's sale orders succeeded or raised, the file
\* has no line of an order whose Name is the name of a sale order in
\* Odoo, and it has every line with a non-empty SKU of the other orders.
C28_ExistingOrdersExcluded ==
    ExportsProcessed => WrittenLines = LinesToImport

\* the same when the query of the sale orders did not raise
C28_ExcludedWhenQueried ==
    (ExportsProcessed /\ trace[3].ok) => WrittenLines = LinesToImport

\* the query succeeded: order #1001 is in Odoo and only the line of #1002
\* is written
C28_Witness ==
    /\ ExportsProcessed
    /\ trace[3].ok
    /\ world.sale_orders = {"#1001"}
    /\ Len(world.export) = 3
    /\ world.export[1].sku = "A"
    /\ WrittenLines = {3}

\* ---------------------------------------------------------------------
\* C29: create_materials_db
\* ---------------------------------------------------------------------

\* main of create_materials_db has run
MaterialsMade ==
    /\ world.for = "create_materials_db"
    /\ last_exit.prog = "create_materials_db"

\* the tables of a database file apart from legacy_lookup, and its
\* legacy_lookup tables
OtherTables(db) == {t \in db.tables : t.name # "legacy_lookup"}

LookupTables(db) == {t \in db.tables : t.name = "legacy_lookup"}

\* the file materials.db is made of when it does not exist
MaterialsOrigin ==
    IF world.materials.exists THEN world.materials
    ELSE IF world.order_sync.exists THEN world.order_sync
    ELSE IF world.woodlanders.exists THEN world.woodlanders
    ELSE [exists |-> TRUE, tables |-> {}]

\* once main has run, materials.db exists and has the tables of the file
\* it was (or, when it was not there, of order_sync.db, else of
\* woodlanders.db, else none), each holding what it held; a legacy_lookup
\* table that file had is the one it has, and otherwise it has at most the
\* one made of the sheet
MaterialsKept ==
    MaterialsMade =>
        /\ out.db.exists
        /\ OtherTables(out.db) = OtherTables(MaterialsOrigin)
        /\ IF LookupTables(MaterialsOrigin) # {}
           THEN LookupTables(out.db) = LookupTables(MaterialsOrigin)
           ELSE LookupTables(out.db) \subseteq
                    {[name |-> "legacy_lookup", holds |-> "legacy_lookup.xlsx"]}

\* C29: main of create_materials_db never overwrites and is idempotent.
\* A materials.db that exists keeps its tables as they are, an existing
\* legacy_lookup included, and gets at most a legacy_lookup it lacked; one
\* that does not exist is made of order_sync.db when that exists,
\* otherwise of woodlanders.db when that exists, otherwise empty; and a
\* run of main after the first leaves materials.db as it is.
C29_IdempotentNoOverwrite ==
    /\ []MaterialsKept
    /\ [][MaterialsMade => out' = out]_vars

\* materials.db was there with a legacy_lookup of its own, the sheet was
\* readable, and main has run
C29_Witness ==
    /\ MaterialsMade
    /\ world.excel = "rows"
    /\ world.materials.exists
    /\ LookupTables(world.materials) # {}
    /\ world.order_sync.exists
    /\ out.db = world.materials

\* materials.db was made of woodlanders.db and got the sheet
C29_WitnessCopied ==
    /\ MaterialsMade
    /\ ~world.materials.exists
    /\ ~world.order_sync.exists
    /\ world.woodlanders.exists
    /\ world.excel = "rows"
    /\ Cardinality(out.db.tables) = 2

====
